---------------------------- MODULE Spec2Model ----------------------------
(***************************************************************************)
(* Verification model of the alpha_flip_research pipeline: the alert gate  *)
(* (src/src/gate.py), the robust normaliser                                *)
(* (src/src/features/normalization.py), the CPCV splitter                  *)
(* (src/src/stats/cpcv.py), the hazard run (src/scripts/run_hazard.py,     *)
(* src/src/models/hazard.py, src/src/stats/metrics.py), the regime         *)
(* detector (src/src/regimes.py), the Benjamini-Hochberg adjustment        *)
(* (src/src/stats/fdr.py), the permutation test and the event study        *)
(* (src/src/stats/permutation.py, src/src/stats/event_study.py,            *)
(* src/scripts/run_event_study.py) and the consumers of the operating      *)
(* point (src/scripts/hazard_eval_operating_point.py,                      *)
(* src/scripts/refresh_release_jsons.py).                                  *)
(*                                                                         *)
(* Time is counted in whole minutes.  Probabilities and thresholds are     *)
(* integers in units of 1/ProbLevels; the exponential moving average is    *)
(* kept as an exact fraction num/den, so the comparison s >= thr is exact. *)
(* An optional value (Python's None, pandas' NaN) is a sequence of length  *)
(* at most one: <<>> is None/NaN, <<x>> is the value x.                    *)
(***************************************************************************)
EXTENDS Integers, Sequences, FiniteSets, TLC

VARIABLES
    \* ---- alert gate (src/src/gate.py, src/tests/test_gate_parity.py) ----
    p,            \* the probability series seen so far: Seq of [ts, v], time ordered
    thr_series,   \* the per-minute threshold series: Seq of [ts, v]
    thr,          \* on-threshold
    k,            \* confirmation length
    ema_span,     \* EMA span (<= 1 disables smoothing)
    min_sep_min,  \* cooldown in minutes
    seen,         \* the alerts recorded by the streaming replay
    last,         \* the replay's most recently recorded alert (<<>> = None)
    \* ---- robust normaliser (src/src/features/normalization.py) ----
    df,           \* the input feature table: Seq of [ts, v], time ordered
    df_alt,       \* a second run's input table (df with one value perturbed)
    window_days,  \* RollingRobustZ.window_days
    per_hod,      \* RollingRobustZ.per_hod
    winsor,       \* RollingRobustZ.winsor as the fraction [n, d]
    \* ---- hazard run (src/scripts/run_hazard.py lines 88-125) ----
    X_index,      \* the index of the cleaned feature table X: a set of minutes
    y,            \* the labels on X_index: [X_index -> {0, 1}]
    n_blocks,     \* cfg["cpcv"]["n_blocks"]
    embargo_minutes,   \* the embargo (run_hazard passes H)
    max_combinations,  \* cfg["cpcv"]["max_combinations"]
    splits,       \* the folds: Seq of [train, test], both sets of minutes
    model,        \* <<>> before training, <<the index the model was fit on>>
    preds,        \* evaluate_hazard's preds: [X_index -> <<>> (NaN) or <<fold>>]
    evaluated,    \* the folds predicted so far: Seq of [test, fit]
    pc,           \* the step of the run
    \* ---- regime detector (src/src/regimes.py) ----
    state,        \* the raw trend state per macro bar
    state_h,      \* the hysteresis-filtered trend state per macro bar
    hyst_last,    \* build_macro_regime's last (the accepted state)
    cnt,          \* build_macro_regime's cnt
    hysteresis_bars,   \* cfg["detector"]["hysteresis_bars"]
    horizon_min,  \* make_flip_labels' horizon_min
    labels,       \* make_flip_labels' y: <<>> until built, then <<[minute -> 0/1]>>
    \* ---- hazard metrics (src/src/stats/metrics.py lines 12-53) ----
    oof,          \* the out-of-fold rows: Seq of [ts, v, y], time ordered
    eval_H,       \* evaluate_hazard's H
    eval_thr,     \* evaluate_hazard's alert_threshold
    eval_sep_min, \* evaluate_hazard's min_sep_min
    metrics,      \* <<>> until evaluated, then <<the metrics record>>
    \* ---- Benjamini-Hochberg (src/src/stats/fdr.py) ----
    pvals,        \* the p-values given to bh_fdr: Seq of floats
    qvals,        \* <<>> until computed, then <<the q-values>>
    \* ---- permutation test (src/src/stats/permutation.py) ----
    pair_values,  \* the gathered values of each tested pair: Seq of Seq of Int
    results,      \* per pair <<>> until tested, then <<[stat, p_value]>>
    rng_stream,   \* the sign stream the seeded generator produces
    rng_pos,      \* draws taken from the most recently used generator
    \* ---- event study (src/src/stats/event_study.py) ----
    flips_index,  \* the flip minutes
    features_index,    \* the index of features_df: a set of minutes
    lag_list,     \* the configured lags: a set of negative minutes
    min_events,   \* cfg["event_study"]["min_events_per_test"]
    evt_todo,     \* the (feature, lag) pairs still to be visited
    evt_results,  \* the result rows: a set of [feature, lag_min, n]
    evt_pc,       \* the step of the event-study run
    \* ---- feature selection (run_hazard.py 76-86, run_event_study.py 98-114) ----
    computed_cols,     \* the columns of the normalised feature table
    cfg_selected, \* cfg["features"]["selected"] names (<<>> = not configured)
    cfg_include,  \* cfg["features"]["include"] (<<>> = not configured)
    kept_cols,    \* the columns the run goes on with
    sel_pc,       \* the step of the run
    \* ---- operating point (scripts/hazard_eval_operating_point.py,
    \*      scripts/refresh_release_jsons.py) ----
    op,           \* operating_point.json: key -> <<>> (absent) or <<value>>
    op_used,      \* <<>> or <<the [thr, k, ema, sep] the gate was run with>>
    op_pc,        \* the consumer's outcome
    \* ---- operating-point sweep (scripts/sweep_hazard.py) ----
    probs_csv,    \* hazard_probs.csv sorted by ts: Seq of [ts, v, y]
    sweep_out,    \* <<>> until swept, then <<the rows of hazard_sweep.csv>>
    sweep_best    \* <<>> or <<the row written to operating_point.json>>

gateVars == <<p, thr_series, thr, k, ema_span, min_sep_min, seen, last>>
normVars == <<df, df_alt, window_days, per_hod, winsor>>

hazardVars == <<X_index, y, n_blocks, embargo_minutes, max_combinations,
                splits, model, preds, evaluated, pc>>
regimeVars == <<state, state_h, hyst_last, cnt, hysteresis_bars, horizon_min,
                labels>>

metricVars == <<oof, eval_H, eval_thr, eval_sep_min, metrics>>
fdrVars == <<pvals, qvals>>
permVars == <<pair_values, results, rng_stream, rng_pos>>
eventVars == <<flips_index, features_index, lag_list, min_events, evt_todo,
               evt_results, evt_pc>>
selectVars == <<computed_cols, cfg_selected, cfg_include, kept_cols, sel_pc>>
opVars == <<op, op_used, op_pc>>
sweepVars == <<probs_csv, sweep_out, sweep_best>>

vars == <<gateVars, normVars, hazardVars, regimeVars, metricVars, fdrVars,
          permVars, eventVars, selectVars, opVars, sweepVars>>

\* What a component's actions leave alone
gateRest == <<normVars, hazardVars, regimeVars, metricVars, fdrVars,
    permVars, eventVars, selectVars, opVars, sweepVars>>
normRest == <<gateVars, hazardVars, regimeVars, metricVars, fdrVars,
    permVars, eventVars, selectVars, opVars, sweepVars>>
hazardRest == <<gateVars, normVars, regimeVars, metricVars, fdrVars,
    permVars, eventVars, selectVars, opVars, sweepVars>>
regimeRest == <<gateVars, normVars, hazardVars, metricVars, fdrVars,
    permVars, eventVars, selectVars, opVars, sweepVars>>
metricRest == <<gateVars, normVars, hazardVars, regimeVars, fdrVars,
    permVars, eventVars, selectVars, opVars, sweepVars>>
fdrRest == <<gateVars, normVars, hazardVars, regimeVars, metricVars,
    permVars, eventVars, selectVars, opVars, sweepVars>>
permRest == <<gateVars, normVars, hazardVars, regimeVars, metricVars,
    fdrVars, eventVars, selectVars, opVars, sweepVars>>
eventRest == <<gateVars, normVars, hazardVars, regimeVars, metricVars,
    fdrVars, permVars, selectVars, opVars, sweepVars>>
selectRest == <<gateVars, normVars, hazardVars, regimeVars, metricVars,
    fdrVars, permVars, eventVars, opVars, sweepVars>>
opRest == <<gateVars, normVars, hazardVars, regimeVars, metricVars,
    fdrVars, permVars, eventVars, selectVars, sweepVars>>
sweepRest == <<gateVars, normVars, hazardVars, regimeVars, metricVars,
    fdrVars, permVars, eventVars, selectVars, opVars>>

---------------------------------------------------------------------------
(* Bounds of the model *)

MaxLen == 3        \* samples in a probability series
MaxWindow == 2     \* k and ema_span range over 1..MaxWindow
SwitchAt == 2      \* minute at which a threshold schedule starts or changes

MaxRows == 5       \* rows of a feature table
MaxWindowDays == 2 \* window_days ranges over 1..MaxWindowDays
StrataPerDay == 2  \* rows per day, one per hour-of-day 0..StrataPerDay-1
MaxMonths == 3     \* calendar months the feature index may span
MonthLen == 4      \* minutes in a month
MaxBlocks == 3     \* n_blocks ranges over 1..MaxBlocks
MaxEmbargo == 1    \* embargo_minutes ranges over 0..MaxEmbargo
MaxCombos == 2     \* max_combinations ranges over 0..MaxCombos
MaxBars == 6       \* macro bars
MacroBarMin == 3   \* minutes in a macro bar
MaxHyst == 3       \* hysteresis_bars ranges over 1..MaxHyst
MaxHorizon == 4    \* horizon_min ranges over 1..MaxHorizon
MaxOof == 3        \* rows of an evaluated table
MaxPvals == 3      \* p-values in a vector
NPerm == 2         \* n_perm, the surrogate draws of a permutation test
MaxVals == 2       \* values gathered for a pair
MaxFlips == 21     \* flips of an event study
MaxCsvRows == 3    \* rows of hazard_probs.csv

Probs == {0, 1, 2}            \* probabilities 0, 1/2, 1
Thresholds == {1, 2}          \* thresholds 1/2, 1
Gaps == {1, 2}                \* minutes between consecutive samples
Cooldowns == 0 .. 3           \* min_sep_min

---------------------------------------------------------------------------
(* Generic helpers *)

Last(s) == s[Len(s)]

RECURSIVE SeqSum(_)
SeqSum(s) == IF s = <<>> THEN 0 ELSE s[1] + SeqSum(Tail(s))

---------------------------------------------------------------------------
(* src/src/gate.py *)

\* p.sort_index(): stable insertion sort on the timestamp.
RECURSIVE InsertByTs(_, _)
InsertByTs(s, r) ==
    IF s = <<>> THEN <<r>>
    ELSE IF Last(s).ts <= r.ts THEN Append(s, r)
    ELSE Append(InsertByTs(SubSeq(s, 1, Len(s) - 1), r), Last(s))

RECURSIVE SortIndex(_)
SortIndex(s) ==
    IF s = <<>> THEN <<>>
    ELSE InsertByTs(SortIndex(SubSeq(s, 1, Len(s) - 1)), Last(s))

\* p.ewm(span, adjust=False).mean(): s[1] = p[1],
\* s[i] = (1-a) s[i-1] + a p[i] with a = 2/(span+1); as the exact fraction
\* num / (span+1)^(i-1).
Ewm(s, span) ==
    LET F[i \in 1 .. Len(s)] ==
            IF i = 1 THEN [ts |-> s[1].ts, num |-> s[1].v, den |-> 1]
            ELSE LET prev == F[i - 1]
                 IN  [ts |-> s[i].ts,
                      num |-> (span - 1) * prev.num + 2 * s[i].v * prev.den,
                      den |-> (span + 1) * prev.den]
    IN  [i \in 1 .. Len(s) |-> F[i]]

\* gate.py line 15: s = ewm(...) if ema_span and ema_span > 1 else p
Smooth(s, span) ==
    IF span > 1 THEN Ewm(s, span)
    ELSE [i \in 1 .. Len(s) |-> [ts |-> s[i].ts, num |-> s[i].v, den |-> 1]]

\* (s >= thr): element-wise, as 0/1
AboveConst(s, c) ==
    [i \in 1 .. Len(s) |-> IF s[i].num >= c * s[i].den THEN 1 ELSE 0]

\* thr_series.sort_index().reindex(s.index, method="pad"): the last threshold
\* at or before each timestamp, NaN (<<>>) when there is none.
PadAt(ths, t) ==
    LET at == {j \in 1 .. Len(ths) : ths[j].ts <= t}
    IN  IF at = {} THEN <<>>
        ELSE <<ths[CHOOSE j \in at : \A j2 \in at : j2 <= j].v>>

\* Mutant of AboveSeries: the strict comparison s > thr
AboveSeriesStrict(s, ths) ==
    LET sorted == SortIndex(ths)
    IN  [i \in 1 .. Len(s) |->
            LET c == PadAt(sorted, s[i].ts)
            IN  IF c # <<>> /\ s[i].num > c[1] * s[i].den THEN 1 ELSE 0]

\* cond = s >= thr with thr a series: a comparison with NaN is False
AboveSeries(s, ths) ==
    LET sorted == SortIndex(ths)
    IN  [i \in 1 .. Len(s) |->
            LET c == PadAt(sorted, s[i].ts)
            IN  IF c # <<>> /\ s[i].num >= c[1] * s[i].den THEN 1 ELSE 0]

\* Mutant of RollingOn: a forward window over the samples i .. i+kk-1, cut
\* at the end of the series (min_periods=1), so the value at i is revised
\* when later samples arrive.
RollingOnCentred(cond, kk) ==
    [i \in 1 .. Len(cond) |->
        IF kk > 1
        THEN LET hi == IF i + kk - 1 > Len(cond) THEN Len(cond) ELSE i + kk - 1
             IN  SeqSum(SubSeq(cond, i, hi)) = hi - i + 1
        ELSE cond[i] = 1]

\* Mutant of RollingOn: any sample of the window above the threshold
\* (rolling(kk, min_periods=1).max()).
RollingOnAny(cond, kk) ==
    [i \in 1 .. Len(cond) |->
        IF kk > 1
        THEN LET lo == IF i - kk + 1 < 1 THEN 1 ELSE i - kk + 1
             IN  SeqSum(SubSeq(cond, lo, i)) >= 1
        ELSE cond[i] = 1]

\* cond.rolling(kk, min_periods=kk).sum().fillna(0).astype(int) == kk
\* if kk and kk > 1 else cond
RollingOn(cond, kk) ==
    [i \in 1 .. Len(cond) |->
        IF kk > 1
        THEN IF i < kk THEN FALSE
             ELSE SeqSum(SubSeq(cond, i - kk + 1, i)) = kk
        ELSE cond[i] = 1]

\* idx = on.index[on]
OnIndex(s, on) ==
    LET F[i \in 0 .. Len(s)] ==
            IF i = 0 THEN <<>>
            ELSE LET prev == F[i - 1]
                 IN  IF on[i] THEN Append(prev, s[i].ts) ELSE prev
    IN  F[Len(s)]

\* Mutant of Emits: the cooldown test is dropped.
EmitsAlways(lastAlert, t, cooldown) == TRUE

\* gate.py line 25: last is None or t - last >= cooldown
Emits(lastAlert, t, cooldown) ==
    lastAlert = <<>> \/ t - lastAlert[1] >= cooldown

\* Mutant of CooldownLoop: a suppressed on-sample restarts the cooldown.
CooldownLoopExtending(idx, cooldown) ==
    LET F[i \in 0 .. Len(idx)] ==
            IF i = 0 THEN [out |-> <<>>, last |-> <<>>]
            ELSE LET prev == F[i - 1]
                 IN  IF Emits(prev.last, idx[i], cooldown)
                     THEN [out |-> Append(prev.out, idx[i]), last |-> <<idx[i]>>]
                     ELSE [out |-> prev.out, last |-> <<idx[i]>>]
    IN  F[Len(idx)].out

\* gate.py lines 21-28: the cooldown loop over idx
CooldownLoop(idx, cooldown) ==
    LET F[i \in 0 .. Len(idx)] ==
            IF i = 0 THEN [out |-> <<>>, last |-> <<>>]
            ELSE LET prev == F[i - 1]
                 IN  IF Emits(prev.last, idx[i], cooldown)
                     THEN [out |-> Append(prev.out, idx[i]), last |-> <<idx[i]>>]
                     ELSE prev
    IN  F[Len(idx)].out

gate_timeseries(pp, th, kk, span, sep) ==
    LET sorted == SortIndex(pp)
        s == Smooth(sorted, span)
        on == RollingOn(AboveConst(s, th), kk)
    IN  CooldownLoop(OnIndex(s, on), sep)

gate_with_series_threshold(pp, ths, kk, span, sep) ==
    LET sorted == SortIndex(pp)
        s == Smooth(sorted, span)
        on == RollingOn(AboveSeries(s, ths), kk)
    IN  CooldownLoop(OnIndex(s, on), sep)

---------------------------------------------------------------------------
(* The other consumers of the operating point *)

\* src/src/stats/metrics.py line 14: preds.clip(1e-6, 1 - 1e-6), in units of
\* 1e-6 (a probability level is 1/2, i.e. ProbMicro units)
ProbMicro == 500000
ClipLo == 1
ClipHi == 999999

Clipped(v) ==
    LET m == v * ProbMicro
    IN  IF m < ClipLo THEN ClipLo ELSE IF m > ClipHi THEN ClipHi ELSE m

\* src/src/stats/metrics.py lines 19-28: alerts = (preds >= alert_threshold),
\* then the throttle loop clears every alert closer than min_sep_min to the
\* last kept one.  confirm_k and ema_span are not read.
evaluate_hazard_alerts(probs, alert_threshold, sep) ==
    LET sorted == SortIndex(probs)
        F[i \in 0 .. Len(sorted)] ==
            IF i = 0 THEN [kept |-> <<>>, last_on |-> <<>>]
            ELSE LET prev == F[i - 1]
                 IN  IF Clipped(sorted[i].v) >= alert_threshold * ProbMicro
                     THEN IF prev.last_on = <<>>
                             \/ sorted[i].ts - prev.last_on[1] >= sep
                          THEN [kept |-> Append(prev.kept, sorted[i].ts),
                                last_on |-> <<sorted[i].ts>>]
                          ELSE prev
                     ELSE prev
    IN  F[Len(sorted)].kept

\* src/scripts/run_gate_backtest.py line 28:
\* alerts = (yhat >= cfg["hazard"]["alert_threshold"]).astype(int)
run_gate_backtest_alerts(yhat, alert_threshold) ==
    LET F[i \in 0 .. Len(yhat)] ==
            IF i = 0 THEN <<>>
            ELSE LET prev == F[i - 1]
                 IN  IF yhat[i].v >= alert_threshold
                     THEN Append(prev, yhat[i].ts) ELSE prev
    IN  F[Len(yhat)]

\* The gate's intermediate series on the current state
GateSmoothed == Smooth(SortIndex(p), ema_span)
GateOnIndex == OnIndex(GateSmoothed, RollingOn(AboveConst(GateSmoothed, thr), k))
GateAlerts == gate_timeseries(p, thr, k, ema_span, min_sep_min)
GateSeriesAlerts ==
    gate_with_series_threshold(p, thr_series, k, ema_span, min_sep_min)

---------------------------------------------------------------------------
(* src/src/features/normalization.py                                       *)
(*                                                                         *)
(* Feature values are integers in units of 1e-9, so that the 1e-9 added to *)
(* the MAD is exactly one unit.  Medians of an even number of values lie   *)
(* on half units and their absolute deviations' medians on quarter units:  *)
(* the rolling statistics are kept in quarter units (suffix 4), and a      *)
(* score is the exact fraction [n, d], reduced to lowest terms.            *)

Eps == 1             \* the 1e-9 added to the MAD, in units of 1e-9
MinPerHour == 60     \* x.index.hour
HoursPerDay == 24    \* x.index.hour
MinPerDay == 1440    \* the rolling window f"{window_days}D"

Abs(x) == IF x < 0 THEN 0 - x ELSE x

RECURSIVE Gcd(_, _)
Gcd(a, b) == IF b = 0 THEN a ELSE Gcd(b, a % b)

\* The fraction n/d (d > 0) in lowest terms
Frac(n, d) ==
    LET g == Gcd(Abs(n), d)
    IN  [n |-> n \div g, d |-> d \div g]

FracLess(a, b) == a.n * b.d < b.n * a.d

\* The values f[j], j in S, in ascending order (f : S -> Int)
RECURSIVE SortedInts(_, _)
SortedInts(S, f) ==
    IF S = {} THEN <<>>
    ELSE LET j == CHOOSE j \in S : \A j2 \in S : f[j] <= f[j2]
         IN  <<f[j]>> \o SortedInts(S \ {j}, f)

\* The fractions f[j], j in S, in ascending order
RECURSIVE SortedFracs(_, _)
SortedFracs(S, f) ==
    IF S = {} THEN <<>>
    ELSE LET j == CHOOSE j \in S : \A j2 \in S : ~FracLess(f[j2], f[j])
         IN  <<f[j]>> \o SortedFracs(S \ {j}, f)

\* Twice the median of a non-empty ascending sequence
Median2(s) ==
    LET n == Len(s)
    IN  IF n % 2 = 1 THEN 2 * s[(n + 1) \div 2]
        ELSE s[n \div 2] + s[n \div 2 + 1]

HourOf(t) == (t \div MinPerHour) % HoursPerDay

\* rolling(w, closed="left"): the rows of the group G in [t - w, t)
WindowLeft(tab, G, i, w) ==
    {j \in G : tab[i].ts - w <= tab[j].ts /\ tab[j].ts < tab[i].ts}

\* rolling(...).median(), in quarter units
RollMedian4(tab, win) ==
    2 * Median2(SortedInts(win, [j \in win |-> tab[j].v]))

\* rolling(...).apply(nanmedian(|s - nanmedian(s)|) + 1e-9), in quarter units
RollMad4(tab, win) ==
    LET m4 == RollMedian4(tab, win)
        devs == SortedInts(win, [j \in win |-> Abs(4 * tab[j].v - m4)])
    IN  Median2(devs) \div 2 + 4 * Eps

\* z = (x - med) / mad at row i; NaN (<<>>) when the window holds no row
\* (an offset window has min_periods = 1)
ZScore(tab, G, i, w) ==
    LET win == WindowLeft(tab, G, i, w)
    IN  IF win = {} THEN <<>>
        ELSE <<Frac(4 * tab[i].v - RollMedian4(tab, win), RollMad4(tab, win))>>

\* s.quantile(q), q = qn/qd, linear interpolation, over a non-empty ascending
\* sequence of fractions
Quantile(zs, qn, qd) ==
    LET pos == qn * (Len(zs) - 1)
        lo == pos \div qd + 1
        fn == pos % qd
    IN  IF fn = 0 THEN zs[lo]
        ELSE LET a == zs[lo]
                 b == zs[lo + 1]
             IN  Frac(a.n * b.d * qd + fn * (b.n * a.d - a.n * b.d),
                      a.d * b.d * qd)

\* s.clip(lo, hi)
Clip(z, lo, hi) ==
    IF FracLess(z, lo) THEN lo ELSE IF FracLess(hi, z) THEN hi ELSE z

\* RollingRobustZ._winsor over one column z : G -> score or NaN; the
\* quantiles are taken over every non-NaN score of the column.
Winsor(G, z, wp) ==
    LET valid == {j \in G : z[j] # <<>>}
        zs == SortedFracs(valid, [j \in valid |-> z[j][1]])
        lo == Quantile(zs, wp.n, wp.d)
        hi == Quantile(zs, wp.d - wp.n, wp.d)
    IN  [j \in G |-> IF z[j] = <<>> THEN <<>> ELSE <<Clip(z[j][1], lo, hi)>>]

\* RollingRobustZ._winsor line 11: the pair of clipping bounds of a column,
\* NaN (<<>>) when the column holds no score
WinsorBounds(G, z, wp) ==
    LET valid == {j \in G : z[j] # <<>>}
        zs == SortedFracs(valid, [j \in valid |-> z[j][1]])
    IN  IF valid = {} THEN <<>>
        ELSE <<[lo |-> Quantile(zs, wp.n, wp.d),
                hi |-> Quantile(zs, wp.d - wp.n, wp.d)]>>

\* One group of transform (lines 22-26 per hour-of-day, lines 30-34 for the
\* whole table)
NormGroup(tab, G, w, wp) ==
    Winsor(G, [i \in G |-> ZScore(tab, G, i, w)], wp)

\* RollingRobustZ.transform: the rows [ts, z] of the output, NaN rows dropped
transform(tab, wdays, hod, wp) ==
    LET all == 1 .. Len(tab)
        w == wdays * MinPerDay
        GroupOf(i) == IF hod THEN {j \in all : HourOf(tab[j].ts) = HourOf(tab[i].ts)}
                      ELSE all
        out == [i \in all |-> NormGroup(tab, GroupOf(i), w, wp)[i]]
        F[i \in 0 .. Len(tab)] ==
            IF i = 0 THEN <<>>
            ELSE LET prev == F[i - 1]
                 IN  IF out[i] = <<>> THEN prev
                     ELSE Append(prev, [ts |-> tab[i].ts, z |-> out[i][1]])
    IN  F[Len(tab)]

FeatureValues == {0, 1, 2}
WinsorPcts == {[n |-> 1, d |-> 100], [n |-> 1, d |-> 4]}

\* The timestamp of the n-th row of the regular grid (n = 0, 1, ...)
SlotTs(n) == (n \div StrataPerDay) * MinPerDay + (n % StrataPerDay) * MinPerHour

\* One more row of the feature table, the same in both runs
AddRow ==
    /\ Len(df) < MaxRows
    /\ \E v \in FeatureValues :
        LET row == [ts |-> SlotTs(Len(df)), v |-> v]
        IN  /\ df' = Append(df, row)
            /\ df_alt' = Append(df_alt, row)
    /\ UNCHANGED <<window_days, per_hod, winsor>>
    /\ UNCHANGED normRest

\* The second run's table gets one value changed
Perturb ==
    /\ df_alt = df
    /\ \E i \in 1 .. Len(df) :
        \E v \in FeatureValues \ {df[i].v} :
            df_alt' = [df_alt EXCEPT ![i].v = v]
    /\ UNCHANGED <<df, window_days, per_hod, winsor>>
    /\ UNCHANGED normRest

NormNext == AddRow \/ Perturb

NormOut == transform(df, window_days, per_hod, winsor)
NormOutAlt == transform(df_alt, window_days, per_hod, winsor)

---------------------------------------------------------------------------
(* src/src/stats/cpcv.py *)

SetMin(S) == CHOOSE x \in S : \A x2 \in S : x <= x2
SetMax(S) == CHOOSE x \in S : \A x2 \in S : x2 <= x

\* The elements of a set of integers in ascending order
RECURSIVE SortedSeq(_)
SortedSeq(S) ==
    IF S = {} THEN <<>> ELSE <<SetMin(S)>> \o SortedSeq(S \ {SetMin(S)})

\* Python's s[-n:] for n >= 0 (s[-0:] is the whole of s)
TailSlice(s, n) ==
    IF n = 0 \/ n >= Len(s) THEN s ELSE SubSeq(s, Len(s) - n + 1, Len(s))

\* pd.PeriodIndex(ix, freq="M"): the month of a minute
MonthOf(t) == t \div MonthLen

\* cpcv.py lines 5-11: the kept month blocks, oldest first
Blocks(idx, nb) ==
    LET uniq == SortedSeq({MonthOf(t) : t \in idx})
        kept == IF Len(uniq) > nb THEN TailSlice(uniq, nb) ELSE uniq
    IN  [b \in 1 .. Len(kept) |-> {t \in idx : MonthOf(t) = kept[b]}]

\* Mutant of EmbargoKeep: the embargo is applied before the test block only.
EmbargoKeepBeforeOnly(train, test, emb) ==
    {t \in train : t < SetMin(test) - emb \/ t > SetMax(test)}

\* cpcv.py lines 24-27: train[(train < test_start - emb) | (train > test_end + emb)]
EmbargoKeep(train, test, emb) ==
    {t \in train : t < SetMin(test) - emb \/ t > SetMax(test) + emb}

\* Mutant of FoldOf: only the test block j is left out of the training set
FoldOfKeepI(blocks, i, j, emb) ==
    LET test == blocks[j]
        train == UNION {blocks[b] : b \in (1 .. Len(blocks)) \ {j}}
    IN  [train |-> EmbargoKeep(train, test, emb), test |-> test]

\* cpcv.py lines 13-28: the fold of the pair (i, j), i < j
FoldOf(blocks, i, j, emb) ==
    LET test == blocks[j]
        train == UNION {blocks[b] : b \in (1 .. Len(blocks)) \ {i, j}}
    IN  [train |-> EmbargoKeep(train, test, emb), test |-> test]

\* cpcv.py lines 13-28: the pairs in the order of the two nested loops
AllPairs(blocks, emb) ==
    LET n == Len(blocks)
        Row(i) == [d \in 1 .. (n - i) |-> FoldOf(blocks, i, i + d, emb)]
        F[i \in 0 .. n] == IF i = 0 THEN <<>> ELSE F[i - 1] \o Row(i)
    IN  F[n]

cpcv_split_by_months(idx, nb, emb, maxc) ==
    LET pairs == AllPairs(Blocks(idx, nb), emb)
    IN  IF Len(pairs) > maxc THEN TailSlice(pairs, maxc) ELSE pairs

---------------------------------------------------------------------------
(* src/scripts/run_hazard.py lines 94-125, src/src/models/hazard.py,       *)
(* src/src/stats/metrics.py lines 5-12                                     *)

\* Mutant of CleanSplits: folds with single-class training labels are kept.
CleanSplitsAnyLabels(sp, idx, lab) ==
    LET F[i \in 0 .. Len(sp)] ==
            IF i = 0 THEN <<>>
            ELSE LET prev == F[i - 1]
                     tr == idx \cap sp[i].train
                     te == idx \cap sp[i].test
                 IN  IF tr = {} \/ te = {} THEN prev
                     ELSE Append(prev, [train |-> tr, test |-> te])
    IN  F[Len(sp)]

\* run_hazard.py lines 99-108: intersect with X.index, drop empty and
\* single-class folds
CleanSplits(sp, idx, lab) ==
    LET F[i \in 0 .. Len(sp)] ==
            IF i = 0 THEN <<>>
            ELSE LET prev == F[i - 1]
                     tr == idx \cap sp[i].train
                     te == idx \cap sp[i].test
                 IN  IF tr = {} \/ te = {} THEN prev
                     ELSE IF Cardinality({lab[t] : t \in tr}) < 2 THEN prev
                     ELSE Append(prev, [train |-> tr, test |-> te])
    IN  F[Len(sp)]

\* models/hazard.py lines 5-13: model.fit(X, y) on the whole of X; the
\* splits argument is not read.  The result is the index the model saw.
train_hazard_logit(idx, sp) == idx

\* metrics.py lines 5-9: preds.loc[te] = model.predict_proba(X.loc[te]) for
\* each fold in turn, a later fold overwriting an earlier one
PredsAfter(idx, sp) ==
    LET F[i \in 0 .. Len(sp)] ==
            IF i = 0 THEN [t \in idx |-> <<>>]
            ELSE LET prev == F[i - 1]
                 IN  [t \in idx |-> IF t \in sp[i].test THEN <<i>> ELSE prev[t]]
    IN  F[Len(sp)]

CandidateTs ==
    {m * MonthLen + o : m \in 0 .. (MaxMonths - 1), o \in {0, MonthLen - 1}}

\* run_hazard.py lines 96-97
CpcvSplit ==
    /\ pc = "split"
    /\ splits' = cpcv_split_by_months(X_index, n_blocks, embargo_minutes,
                                       max_combinations)
    /\ pc' = "clean"
    /\ UNCHANGED <<X_index, y, n_blocks, embargo_minutes, max_combinations,
                   model, preds, evaluated>>
    /\ UNCHANGED hazardRest

\* run_hazard.py lines 99-109: the cleaned folds; the assertion ends the
\* run when none is left
Clean ==
    /\ pc = "clean"
    /\ splits' = CleanSplits(splits, X_index, y)
    /\ pc' = IF Len(splits') > 0 THEN "train" ELSE "failed"
    /\ UNCHANGED <<X_index, y, n_blocks, embargo_minutes, max_combinations,
                   model, preds, evaluated>>
    /\ UNCHANGED hazardRest

\* run_hazard.py lines 114-117
Train ==
    /\ pc = "train"
    /\ model' = <<train_hazard_logit(X_index, splits)>>
    /\ pc' = "eval"
    /\ UNCHANGED <<X_index, y, n_blocks, embargo_minutes, max_combinations,
                   splits, preds, evaluated>>
    /\ UNCHANGED hazardRest

\* run_hazard.py lines 122-124, metrics.py lines 5-9: every fold's test rows
\* are predicted by the one fitted model
Evaluate ==
    /\ pc = "eval"
    /\ preds' = PredsAfter(X_index, splits)
    /\ evaluated' = [i \in 1 .. Len(splits) |->
                        [test |-> splits[i].test, fit |-> model[1]]]
    /\ pc' = "done"
    /\ UNCHANGED <<X_index, y, n_blocks, embargo_minutes, max_combinations,
                   splits, model>>
    /\ UNCHANGED hazardRest

HazardNext == CpcvSplit \/ Clean \/ Train \/ Evaluate

---------------------------------------------------------------------------
(* src/src/regimes.py *)

TrendStates == {"bull", "bear", "range"}

\* _ols_slope_r2 returns NaN for fewer than 2 points (line 8): the window
\* logp[i-look:i] of bar i holds at most i points, so the first MinOlsPoints
\* bars have no slope and their raw state is "range".
MinOlsPoints == 2

RawStatesAt(i) == IF i < MinOlsPoints THEN {"range"} ELSE TrendStates

\* regimes.py lines 69-72: st[st != st.shift(1)].index[1:], as bar numbers
\* (bar 0 is the first; it always differs from the shifted NaN)
find_flips(sh) ==
    LET changed == {i \in 1 .. Len(sh) : i = 1 \/ sh[i] # sh[i - 1]}
    IN  {i - 1 : i \in changed \ {SetMin(changed)}}

\* Mutant of RegimeSign: range is mapped like bull
RegimeSignRangeAsBull(s) == IF s = "bear" THEN -1 ELSE 1

\* run_event_study.py line 66: R_raw.map({"bull": +1, "bear": -1}).fillna(0)
RegimeSign(s) == IF s = "bull" THEN 1 ELSE IF s = "bear" THEN -1 ELSE 0

\* run_event_study.py lines 69-70: the positions where R differs from
\* R.shift(1) (the first one always does: the shifted value is NaN)
FlipTimes(sh) ==
    {i \in 1 .. Len(sh) :
        i = 1 \/ RegimeSign(sh[i]) # RegimeSign(sh[i - 1])}

\* run_event_study.py line 71: (R - R.shift(1)) at a flip time, NaN as 0
DeltaAt(sh, i) ==
    IF i = 1 THEN 0 ELSE RegimeSign(sh[i]) - RegimeSign(sh[i - 1])

\* run_event_study.py lines 72-73, as bar numbers
flips_up_idx(sh) == {i - 1 : i \in {i \in FlipTimes(sh) : DeltaAt(sh, i) = 2}}
flips_dn_idx(sh) == {i - 1 : i \in {i \in FlipTimes(sh) : DeltaAt(sh, i) = -2}}

\* The minute of a macro bar
BarTs(i) == i * MacroBarMin

\* regimes.py lines 76-80: y = 1 on (t, t + H] for every flip t, on the
\* minute range of the macro index
make_flip_labels(nbars, flips, H) ==
    [m \in 0 .. BarTs(nbars - 1) |->
        IF \E f \in flips : m > BarTs(f) /\ m <= BarTs(f) + H THEN 1 ELSE 0]

\* Mutant of HysteresisStep: the counter is not reset when the state flips
HysteresisStepKeepCount ==
    /\ Len(state) < MaxBars
    /\ labels = <<>>
    /\ \E s \in RawStatesAt(Len(state)) :
        /\ state' = Append(state, s)
        /\ IF s # hyst_last
           THEN IF cnt + 1 >= hysteresis_bars
                THEN /\ hyst_last' = s
                     /\ cnt' = cnt
                     /\ state_h' = Append(state_h, s)
                ELSE /\ cnt' = cnt + 1
                     /\ state_h' = Append(state_h, hyst_last)
                     /\ UNCHANGED hyst_last
           ELSE /\ cnt' = 0
                /\ state_h' = Append(state_h, hyst_last)
                /\ UNCHANGED hyst_last
    /\ UNCHANGED <<hysteresis_bars, horizon_min, labels>>
    /\ UNCHANGED regimeRest

\* regimes.py lines 49-60: the hysteresis loop's body for one more macro bar
\* with raw state s (state_h starts as a copy of state)
HysteresisStep ==
    /\ Len(state) < MaxBars
    /\ labels = <<>>
    /\ \E s \in RawStatesAt(Len(state)) :
        /\ state' = Append(state, s)
        /\ IF s # hyst_last
           THEN IF cnt + 1 >= hysteresis_bars
                THEN /\ hyst_last' = s
                     /\ cnt' = 0
                     /\ state_h' = Append(state_h, s)
                ELSE /\ cnt' = cnt + 1
                     /\ state_h' = Append(state_h, hyst_last)
                     /\ UNCHANGED hyst_last
           ELSE /\ cnt' = 0
                /\ state_h' = Append(state_h, hyst_last)
                /\ UNCHANGED hyst_last
    /\ UNCHANGED <<hysteresis_bars, horizon_min, labels>>
    /\ UNCHANGED regimeRest

\* run_hazard.py lines 47-53: find_flips, then make_flip_labels
MakeLabels ==
    /\ labels = <<>>
    /\ labels' = <<make_flip_labels(Len(state_h), find_flips(state_h),
                                     horizon_min)>>
    /\ UNCHANGED <<state, state_h, hyst_last, cnt, hysteresis_bars, horizon_min>>
    /\ UNCHANGED regimeRest

RegimeNext == HysteresisStep \/ MakeLabels

---------------------------------------------------------------------------
(* The threshold schedules the gate is driven with: the constant thr from  *)
(* the start, the constant thr from minute SwitchAt on (no threshold       *)
(* before), and thr switching to another level at minute SwitchAt.         *)

ThrSchedules(c) ==
    {<<[ts |-> 0, v |-> c]>>, <<[ts |-> SwitchAt, v |-> c]>>}
    \cup {<<[ts |-> 0, v |-> c], [ts |-> SwitchAt, v |-> c2]>> :
            c2 \in Thresholds \ {c}}

\* src/tests/test_gate_parity.py lines 12-15: one more sample arrives and the
\* gate is recomputed over the prefix; its most recent alert is recorded when
\* it differs from the previously recorded one.
Observe ==
    /\ Len(p) < MaxLen
    /\ \E gap \in Gaps, v \in Probs :
        LET now == IF p = <<>> THEN gap ELSE Last(p).ts + gap
            prefix == Append(p, [ts |-> now, v |-> v])
            a == gate_timeseries(prefix, thr, k, ema_span, min_sep_min)
        IN  /\ p' = prefix
            /\ IF Len(a) > 0 /\ (last = <<>> \/ Last(a) # last[1])
               THEN /\ seen' = Append(seen, Last(a))
                    /\ last' = <<Last(a)>>
               ELSE UNCHANGED <<seen, last>>
    /\ UNCHANGED <<thr_series, thr, k, ema_span, min_sep_min>>
    /\ UNCHANGED gateRest

GateNext == Observe

---------------------------------------------------------------------------
(* src/src/stats/metrics.py lines 12-53: the metrics of evaluate_hazard.   *)
(* A row of oof is [ts, v, y]: the minute, the prediction (<<>> when no    *)
(* fold predicted the row, dropped by dropna) and the label.               *)

HalfDay == 720

OofProbs == {<<>>} \cup {<<v>> : v \in Probs}

\* metrics.py lines 12-14: preds.sort_index()...dropna() as Seq of [ts, v]
PredRows(rows) ==
    LET F[i \in 0 .. Len(rows)] ==
            IF i = 0 THEN <<>>
            ELSE LET prev == F[i - 1]
                 IN  IF rows[i].v = <<>> THEN prev
                     ELSE Append(prev, [ts |-> rows[i].ts, v |-> rows[i].v[1]])
    IN  F[Len(rows)]

\* metrics.py line 30: y[(y==1) & (y.shift(1)==0)].index, the first positive
\* minute of every label window (the first row has no predecessor)
LabelFlips(rows) ==
    {rows[i].ts : i \in {j \in 2 .. Len(rows) :
                            rows[j].y = 1 /\ rows[j - 1].y = 0}}

\* pandas resample("1D"): the calendar day of a minute
DayOf(t) == t \div MinPerDay

\* metrics.py line 38: alerts.resample("1D").sum().mean().  The bins are the
\* calendar days from the first to the last predicted row; every alert kept
\* by the throttle is summed, wherever it lies.
FaPerDay(rows, th, sep) ==
    LET pr == PredRows(rows)
        alerts == evaluate_hazard_alerts(pr, th, sep)
        bins == DayOf(pr[Len(pr)].ts) - DayOf(pr[1].ts) + 1
    IN  Frac(Len(alerts), bins)

\* metrics.py lines 4-53, the part that builds false_alarms_per_day
evaluate_hazard(rows, H, th, sep) ==
    [false_alarms_per_day |-> FaPerDay(rows, th, sep), horizon_min |-> H]

\* One more row of the evaluated table
AddOofRow ==
    /\ metrics = <<>>
    /\ Len(oof) < MaxOof
    /\ \E gap \in {HalfDay, MinPerDay}, v \in OofProbs, lab \in {0, 1} :
        LET now == IF oof = <<>> THEN 0 ELSE Last(oof).ts + gap
        IN  oof' = Append(oof, [ts |-> now, v |-> v, y |-> lab])
    /\ UNCHANGED <<eval_H, eval_thr, eval_sep_min, metrics>>
    /\ UNCHANGED metricRest

\* run_hazard.py lines 122-124: the call of evaluate_hazard (brier_score_loss
\* needs at least one predicted row)
EvaluateHazard ==
    /\ metrics = <<>>
    /\ PredRows(oof) # <<>>
    /\ metrics' = <<evaluate_hazard(oof, eval_H, eval_thr, eval_sep_min)>>
    /\ UNCHANGED <<oof, eval_H, eval_thr, eval_sep_min>>
    /\ UNCHANGED metricRest

MetricNext == AddOofRow \/ EvaluateHazard


---------------------------------------------------------------------------
(* src/src/stats/fdr.py                                                    *)
(*                                                                         *)
(* bh_fdr works on binary floating-point numbers (dtype=float): every      *)
(* product and quotient is rounded to the nearest representable number,    *)
(* ties to the even significand.  The format is modelled with a            *)
(* significand of MantBits bits (53 in the program) and an unbounded       *)
(* exponent; a float is the exact fraction [n, d] it stands for.           *)

MantBits == 3

\* The non-negative fraction n/d times up/down, rounded to MantBits
\* significant bits (round half to even)
RECURSIVE FlNorm(_, _, _, _)
FlNorm(n, d, up, down) ==
    IF n >= d * 2 ^ MantBits THEN FlNorm(n, 2 * d, 2 * up, down)
    ELSE IF n < d * 2 ^ (MantBits - 1) THEN FlNorm(2 * n, d, up, 2 * down)
    ELSE LET q == n \div d
             r == n % d
             m == IF 2 * r > d \/ (2 * r = d /\ q % 2 = 1) THEN q + 1 ELSE q
         IN  Frac(m * up, down)

\* The float nearest to n/d (n >= 0, d > 0)
Fl(n, d) == IF n = 0 THEN [n |-> 0, d |-> 1] ELSE FlNorm(n, d, 1, 1)

\* float * int and float / int as the processor computes them
FlMul(a, c) == Fl(a.n * c, a.d)
FlDiv(a, c) == Fl(a.n, a.d * c)

\* The p-values of the model: the floats j / 2^(MantBits+1) in [0, 1]
PUnit == 2 ^ (MantBits + 1)
PGrid == {f \in {Frac(j, PUnit) : j \in 0 .. PUnit} : Fl(f.n, f.d) = f}

\* fdr.py line 6: np.argsort(p), as the stable order of the indices
RECURSIVE Argsort(_, _)
Argsort(pv, S) ==
    IF S = {} THEN <<>>
    ELSE LET i == CHOOSE i \in S : \A j \in S :
                      \/ FracLess(pv[i], pv[j])
                      \/ (~FracLess(pv[j], pv[i]) /\ i <= j)
         IN  <<i>> \o Argsort(pv, S \ {i})

\* fdr.py line 12: p[idx] * n / ranks, by rank
RawQ(pv, idx) ==
    [r \in 1 .. Len(idx) |-> FlDiv(FlMul(pv[idx[r]], Len(pv)), r)]

\* Mutant of RevCumMin: the running minimum is left out.
RevCumMinNone(raw) == raw

\* fdr.py line 12: np.minimum.accumulate(raw[::-1])[::-1]
RevCumMin(raw) ==
    LET n == Len(raw)
        F[r \in 1 .. n] ==
            IF r = n THEN raw[n]
            ELSE LET nxt == F[r + 1]
                 IN  IF FracLess(raw[r], nxt) THEN raw[r] ELSE nxt
    IN  [r \in 1 .. n |-> F[r]]

\* fdr.py lines 3-13: qvals[idx] = the step-up values by rank
bh_fdr(pv) ==
    LET idx == Argsort(pv, 1 .. Len(pv))
        byRank == RevCumMin(RawQ(pv, idx))
    IN  [i \in 1 .. Len(pv) |->
            byRank[CHOOSE r \in 1 .. Len(idx) : idx[r] = i]]

\* fdr.py lines 7-9: thresh = q * ranks / n and passed = p[idx] <= thresh
Passed(pv, idx, q) ==
    [r \in 1 .. Len(idx) |->
        ~FracLess(FlDiv(FlMul(q, r), Len(pv)), pv[idx[r]])]

\* fdr.py lines 3-13 with the q argument: `passed` is computed and not
\* read again
bh_fdr_with_q(pv, q) ==
    LET passed == Passed(pv, Argsort(pv, 1 .. Len(pv)), q)
    IN  bh_fdr(pv)

\* Mutant of QvalStep: the running minimum is left out.
QvalStepNoMin(prev, val) == val

\* analyze_event_study.py line 21: prev = min(prev, val)
QvalStep(prev, val) == IF FracLess(val, prev) THEN val ELSE prev

\* analyze_event_study.py lines 9-23: the loop walks the ranks k = m .. 1
\* with prev = 1.0 at the start and stores prev at the index of rank k
bh_qvalues(pv) ==
    IF Len(pv) = 0 THEN pv
    ELSE LET m == Len(pv)
             order == Argsort(pv, 1 .. m)
             G[kk \in 1 .. (m + 1)] ==
                 IF kk = m + 1 THEN [n |-> 1, d |-> 1]
                 ELSE LET prev == G[kk + 1]
                      IN  QvalStep(prev, FlDiv(FlMul(pv[order[kk]], m), kk))
         IN  [i \in 1 .. m |-> G[CHOOSE r \in 1 .. m : order[r] = i]]

\* One more p-value in the vector
AddPval ==
    /\ qvals = <<>>
    /\ Len(pvals) < MaxPvals
    /\ \E f \in PGrid : pvals' = Append(pvals, f)
    /\ UNCHANGED qvals
    /\ UNCHANGED fdrRest

\* run_event_study.py line 265: res["q_value"] = bh_fdr(res["p_value"].values)
BhFdr ==
    /\ qvals = <<>>
    /\ qvals' = <<bh_fdr(pvals)>>
    /\ UNCHANGED pvals
    /\ UNCHANGED fdrRest

FdrNext == AddPval \/ BhFdr


---------------------------------------------------------------------------
(* src/src/stats/permutation.py, and the calls made by the loop of         *)
(* src/src/stats/event_study.py (lines 68-76).                             *)
(*                                                                         *)
(* A seeded generator is a fixed stream of signs: rng_stream is the stream *)
(* np.random.default_rng(123) produces, whatever it is, and a generator is *)
(* the number of draws taken from it so far.  The value vectors are short  *)
(* and the stream wraps around after StreamLen draws.                      *)

PermValues == {-1, 2}
PairIds == {1, 2}
StreamLen == 2 * NPerm + 1

\* All sequences over S of length at most n
SeqsUpTo(S, n) == UNION {[1 .. m -> S] : m \in 0 .. n}

\* Mutant of default_rng: the generator of the previous call is carried on.
ReuseRng(pos) == pos

\* permutation.py line 5: a new generator, seeded with rng_seed, starts at
\* the head of the stream wherever an earlier generator stands
default_rng(pos) == 0

\* The i-th sign of the j-th draw of rng.choice([-1, 1], size=n)
SignAt(start, j, i, n) ==
    rng_stream[((start + (j - 1) * n + (i - 1)) % StreamLen) + 1]

\* permutation.py line 13: n * np.mean(values * signs) for the j-th draw
SurSum(v, start, j) ==
    LET n == Len(v)
        F[i \in 0 .. n] ==
            IF i = 0 THEN 0
            ELSE LET prev == F[i - 1]
                 IN  prev + v[i] * SignAt(start, j, i, n)
    IN  F[n]

\* Mutant of Exceeds: a one-sided comparison.
ExceedsOneSided(sur, obs) == sur >= obs

\* permutation.py line 15: np.abs(sur) >= np.abs(obs)
Exceeds(sur, obs) == Abs(sur) >= Abs(obs)

\* permutation.py lines 3-16 for a generator standing at start.  An empty
\* vector has no mean (NaN): the result is (0.0, 1.0).
permutation_test_series(v, start) ==
    IF Len(v) = 0 THEN [stat |-> Frac(0, 1), p_value |-> Frac(1, 1)]
    ELSE LET obs == SeqSum(v)
             hits == {j \in 1 .. NPerm : Exceeds(SurSum(v, start, j), obs)}
         IN  [stat |-> Frac(obs, Len(v)),
              p_value |-> Frac(Cardinality(hits) + 1, NPerm + 1)]

\* event_study.py lines 68-76: the test of one pair's gathered values; the
\* pairs are taken in any order
TestPair ==
    /\ \E i \in PairIds :
        /\ results[i] = <<>>
        /\ LET start == default_rng(rng_pos)
               r == permutation_test_series(pair_values[i], start)
           IN  /\ results' = [results EXCEPT ![i] = <<r>>]
               /\ rng_pos' = start + NPerm * Len(pair_values[i])
    /\ UNCHANGED <<pair_values, rng_stream>>
    /\ UNCHANGED permRest

PermNext == TestPair


---------------------------------------------------------------------------
(* src/src/stats/event_study.py lines 16-88 and its call in                *)
(* src/scripts/run_event_study.py lines 219-229.                           *)
(*                                                                         *)
(* The flips are consecutive minutes from FirstFlip on; features_df has    *)
(* one index for all its columns, a range of minutes with holes.           *)

MinValues == 20      \* event_study.py line 68: len(values) >= 20

EvtCols == <<"a", "b">>
EvtLags == {-1, -2}
FirstFlip == 3
EvtHoles == {1, 2}

\* event_study.py lines 62-67: the flips t whose t - |lag_min| is in the index
GatheredCount(fl, ix, lag_min) ==
    Cardinality({t \in fl : (t - Abs(lag_min)) \in ix})

\* event_study.py lines 54-60: the next pair of the two nested loops, columns
\* in table order and lags ascending
NextPair(todo) ==
    LET c == CHOOSE c \in 1 .. Len(EvtCols) :
                /\ \E pr \in todo : pr.feature = EvtCols[c]
                /\ \A c2 \in 1 .. (c - 1) :
                      ~\E pr \in todo : pr.feature = EvtCols[c2]
        lags == {pr.lag_min : pr \in {q \in todo : q.feature = EvtCols[c]}}
    IN  [feature |-> EvtCols[c], lag_min |-> SetMin(lags)]

\* run_event_study.py lines 219-229: evt(..., min_events=min_ev).
\* run_event_study has no parameter min_events: the call raises TypeError,
\* which main turns into SystemExit(1) (lines 280-287).
ScriptCallsEvt ==
    /\ evt_pc = "start"
    /\ evt_pc' = "failed"
    /\ UNCHANGED <<flips_index, features_index, lag_list, min_events,
                   evt_todo, evt_results>>
    /\ UNCHANGED eventRest

\* A call of run_event_study(flips_index, features_df, lags=...) with the
\* parameters it has; lines 38-46 keep the negative lags
CallRunEventStudy ==
    /\ evt_pc = "start"
    /\ evt_todo' = {[feature |-> EvtCols[c], lag_min |-> l] :
                        c \in 1 .. Len(EvtCols), l \in {x \in lag_list : x < 0}}
    /\ evt_pc' = "loop"
    /\ UNCHANGED <<flips_index, features_index, lag_list, min_events,
                   evt_results>>
    /\ UNCHANGED eventRest

\* event_study.py lines 60-76: one pass of the inner loop
VisitPair ==
    /\ evt_pc = "loop"
    /\ evt_todo # {}
    /\ LET pr == NextPair(evt_todo)
           n == GatheredCount(flips_index, features_index, pr.lag_min)
       IN  /\ evt_todo' = evt_todo \ {pr}
           /\ evt_results' =
                IF n >= MinValues
                THEN evt_results \cup
                        {[feature |-> pr.feature, lag_min |-> pr.lag_min, n |-> n]}
                ELSE evt_results
    /\ UNCHANGED <<flips_index, features_index, lag_list, min_events, evt_pc>>
    /\ UNCHANGED eventRest

\* event_study.py line 88: return pd.DataFrame(results)
ReturnResults ==
    /\ evt_pc = "loop"
    /\ evt_todo = {}
    /\ evt_pc' = "done"
    /\ UNCHANGED <<flips_index, features_index, lag_list, min_events,
                   evt_todo, evt_results>>
    /\ UNCHANGED eventRest

EventNext == ScriptCallsEvt \/ CallRunEventStudy \/ VisitPair \/ ReturnResults


---------------------------------------------------------------------------
(* The consumers of operating_point.json:                                  *)
(* src/scripts/hazard_eval_operating_point.py and                          *)
(* src/scripts/refresh_release_jsons.py.                                   *)

OpKeys == {"thr", "alert_threshold", "k", "confirm_k", "ema", "ema_span",
           "sep", "min_separation_min"}

\* The values a key of the file may hold
OpValues(key) ==
    IF key \in {"thr", "alert_threshold"} THEN Thresholds
    ELSE IF key \in {"sep", "min_separation_min"} THEN {0, 1}
    ELSE 1 .. MaxWindow

\* cfg.get(short, cfg.get(long)): <<>> is None
OpGet(cfg, short, long) == IF cfg[short] # <<>> THEN cfg[short] ELSE cfg[long]

\* op.get(short, op.get(long, dflt))
OpGetDefault(cfg, short, long, dflt) ==
    IF cfg[short] # <<>> THEN cfg[short]
    ELSE IF cfg[long] # <<>> THEN cfg[long] ELSE <<dflt>>

\* hazard_eval_operating_point.py lines 11-20: <<>> stands for SystemExit
_load_operating_point(cfg) ==
    LET t == OpGet(cfg, "thr", "alert_threshold")
        kk == OpGet(cfg, "k", "confirm_k")
        ema == OpGet(cfg, "ema", "ema_span")
        sep == OpGet(cfg, "sep", "min_separation_min")
    IN  IF t = <<>> \/ kk = <<>> \/ ema = <<>> \/ sep = <<>> THEN <<>>
        ELSE <<[thr |-> t[1], k |-> kk[1], ema |-> ema[1], sep |-> sep[1]]>>

\* refresh_release_jsons.py lines 60-64: float(None) raises TypeError (<<>>);
\* k, ema and sep fall back to 1, 1 and 0
RefreshOperatingPoint(cfg) ==
    LET t == OpGet(cfg, "thr", "alert_threshold")
    IN  IF t = <<>> THEN <<>>
        ELSE <<[thr |-> t[1],
                k |-> OpGetDefault(cfg, "k", "confirm_k", 1)[1],
                ema |-> OpGetDefault(cfg, "ema", "ema_span", 1)[1],
                sep |-> OpGetDefault(cfg, "sep", "min_separation_min", 0)[1]]>>

\* hazard_eval_operating_point.py lines 23-68: main loads the operating
\* point, runs the gate with it and writes hazard_eval.json
HazardEvalMain ==
    /\ op_pc = "start"
    /\ LET loaded == _load_operating_point(op)
       IN  IF loaded = <<>>
           THEN op_pc' = "error" /\ UNCHANGED op_used
           ELSE op_pc' = "written" /\ op_used' = loaded
    /\ UNCHANGED op
    /\ UNCHANGED opRest

\* refresh_release_jsons.py lines 39-104: recompute_metrics_for_release_dir
\* runs the gate and writes hazard_metrics.json
RecomputeMetrics ==
    /\ op_pc = "start"
    /\ LET loaded == RefreshOperatingPoint(op)
       IN  IF loaded = <<>>
           THEN op_pc' = "error" /\ UNCHANGED op_used
           ELSE op_pc' = "written" /\ op_used' = loaded
    /\ UNCHANGED op
    /\ UNCHANGED opRest

OpNext == HazardEvalMain \/ RecomputeMetrics


---------------------------------------------------------------------------
(* The feature selection of src/scripts/run_hazard.py (lines 76-86) and    *)
(* src/scripts/run_event_study.py (lines 98-114).  A configured list is    *)
(* <<>> when the key is absent and <<names>> otherwise; Python treats an    *)
(* empty list like an absent one.                                          *)

ColNames == {"a", "b", "c"}
ComputedNames == {"a", "b"}

\* `if selected:` / `if inc:` -- the list is there and not empty
Truthy(lst) == lst # <<>> /\ lst[1] # {}

\* run_hazard.py line 80, run_event_study.py lines 102-109: the names of
\* features.selected, else features.include, else nothing (<<>>)
SelectedNames(sel, inc) ==
    IF Truthy(sel) THEN sel ELSE IF Truthy(inc) THEN inc ELSE <<>>

\* run_hazard.py lines 81-86, run_event_study.py lines 102-114: the columns
\* in the list when there are any; otherwise a warning, and all columns
KeptColumns(cols, sel, inc) ==
    LET names == SelectedNames(sel, inc)
    IN  IF names = <<>> THEN cols
        ELSE IF cols \cap names[1] # {} THEN cols \cap names[1]
        ELSE cols

\* run_hazard.py lines 76-92: the run goes on to the validity mask
SelectHazard ==
    /\ sel_pc = "start"
    /\ kept_cols' = KeptColumns(computed_cols, cfg_selected, cfg_include)
    /\ sel_pc' = "hazard_run"
    /\ UNCHANGED <<computed_cols, cfg_selected, cfg_include>>
    /\ UNCHANGED selectRest

\* run_event_study.py lines 98-115: the run goes on to the diagnostics
SelectEventStudy ==
    /\ sel_pc = "start"
    /\ kept_cols' = KeptColumns(computed_cols, cfg_selected, cfg_include)
    /\ sel_pc' = "event_study_run"
    /\ UNCHANGED <<computed_cols, cfg_selected, cfg_include>>
    /\ UNCHANGED selectRest

SelectNext == SelectHazard \/ SelectEventStudy


---------------------------------------------------------------------------
(* src/scripts/sweep_hazard.py and the coverage of                         *)
(* src/scripts/hazard_eval_operating_point.py                              *)
(*                                                                         *)
(* Probabilities and thresholds are integers in units of 0.001, times are  *)
(* minutes.                                                                *)

PRE == 180           \* the pre-flip window of both scripts, in minutes

CsvProbs == {0, 560, 1000}
CsvGaps == {30, 90}

\* sweep_hazard.py lines 29-32: the grid in the order of the four loops
SweepThrs == [i \in 1 .. 25 |-> 540 + 2 * (i - 1)]
SweepKs == <<1, 2>>
SweepEmas == <<1, 3>>
SweepSeps == <<30, 60>>

SweepGrid ==
    [m \in 1 .. (Len(SweepThrs) * 8) |->
        LET q == m - 1
        IN  [thr |-> SweepThrs[(q \div 8) + 1],
             k |-> SweepKs[((q \div 4) % 2) + 1],
             ema |-> SweepEmas[((q \div 2) % 2) + 1],
             sep |-> SweepSeps[(q % 2) + 1]]]

\* sweep_hazard.py lines 5-13: the script's own gate, on the sorted frame
sweep_gate_timeseries(pp, th, kk, span, sep) ==
    LET s == Smooth(pp, span)
        on == RollingOn(AboveConst(s, th), kk)
    IN  CooldownLoop(OnIndex(s, on), sep)

\* sweep_hazard.py lines 16-18: the maximal runs of y == 1 as (first, last)
\* timestamps, in time order
spans_from_y(rows) ==
    LET n == Len(rows)
        starts == {i \in 1 .. n :
                     rows[i].y = 1 /\ (i = 1 \/ rows[i - 1].y # 1)}
        EndOf(i) == SetMax({j \in i .. n : \A j2 \in i .. j : rows[j2].y = 1})
        order == SortedSeq(starts)
    IN  [e \in 1 .. Len(order) |->
            [a |-> rows[order[e]].ts, b |-> rows[EndOf(order[e])].ts]]

\* Mutant of InWindow: the window is the run of y == 1 itself
InWindowOfRun(t, span) == span.a <= t /\ t <= span.b

\* sweep_hazard.py line 35, hazard_eval_operating_point.py line 42: the
\* window (b - PRE, b) of a span, both ends included
InWindow(t, span) == span.b - PRE <= t /\ t <= span.b

\* sweep_hazard.py lines 36-40
in_any_win(t, spans) == \E e \in 1 .. Len(spans) : InWindow(t, spans[e])

\* n_days = max(seconds / 86400, 1e-9) and fa / n_days, as a fraction
FaPerDayOf(rows, fa) ==
    LET span_min == Last(rows).ts - rows[1].ts
    IN  IF span_min > 0 THEN Frac(fa * MinPerDay, span_min)
        ELSE Frac(fa * 1000000000, 1)

\* sweep_hazard.py lines 33-49: the row of one grid point
SweepRow(rows, g) ==
    LET A == sweep_gate_timeseries(rows, g.thr, g.k, g.ema, g.sep)
        spans == spans_from_y(rows)
        tp == Cardinality({i \in 1 .. Len(A) : in_any_win(A[i], spans)})
        fa == Len(A) - tp
        n_spans == IF Len(spans) > 1 THEN Len(spans) ELSE 1
    IN  [thr |-> g.thr, k |-> g.k, ema |-> g.ema, sep |-> g.sep,
         alerts |-> Len(A), fa_per_day |-> FaPerDayOf(rows, fa), tp |-> tp,
         coverage |-> Frac(tp, n_spans)]

\* sweep_hazard.py lines 53-55: the rows with fa_per_day <= 2 and
\* coverage > 0 that are first under (coverage descending, fa_per_day
\* ascending, thr ascending); rows that tie on the three keys are all kept
\* here, the sort puts one of them first
BestRows(out) ==
    LET ok == {m \in 1 .. Len(out) :
                 /\ ~FracLess([n |-> 2, d |-> 1], out[m].fa_per_day)
                 /\ out[m].coverage.n > 0}
        Before(a, b) ==
            \/ FracLess(b.coverage, a.coverage)
            \/ /\ a.coverage = b.coverage
               /\ \/ FracLess(a.fa_per_day, b.fa_per_day)
                  \/ a.fa_per_day = b.fa_per_day /\ a.thr < b.thr
    IN  {out[m] : m \in {m \in ok : \A m2 \in ok : ~Before(out[m2], out[m])}}

\* hazard_eval_operating_point.py lines 37-61: the coverage reported for the
\* operating point (th, kk, span, sep), with the gate of src/gate.py
hazard_eval_coverage(rows, th, kk, span, sep) ==
    LET A == gate_timeseries(rows, th, kk, span, sep)
        spans == spans_from_y(SortIndex(rows))
        covered == Cardinality({e \in 1 .. Len(spans) :
                       \E i \in 1 .. Len(A) : InWindow(A[i], spans[e])})
        n_spans == IF Len(spans) > 1 THEN Len(spans) ELSE 1
    IN  Frac(covered, n_spans)

\* hazard_probs.csv gets one more row (the file is written by run_hazard)
AddCsvRow ==
    /\ Len(probs_csv) < MaxCsvRows
    /\ sweep_out = <<>>
    /\ \E gap \in CsvGaps, v \in CsvProbs, lbl \in {0, 1} :
          probs_csv' = Append(probs_csv,
              [ts |-> Last(probs_csv).ts + gap, v |-> v, y |-> lbl])
    /\ UNCHANGED <<sweep_out, sweep_best>>
    /\ UNCHANGED sweepRest

\* sweep_hazard.py lines 22-57: the sweep over the grid, hazard_sweep.csv and
\* operating_point.json
SweepHazard ==
    /\ sweep_out = <<>>
    /\ LET out == [m \in 1 .. Len(SweepGrid) |->
                      SweepRow(probs_csv, SweepGrid[m])]
           best == BestRows(out)
       IN  /\ sweep_out' = <<out>>
           /\ IF best = {} THEN sweep_best' = <<>>
              ELSE \E r \in best : sweep_best' = <<r>>
    /\ UNCHANGED probs_csv
    /\ UNCHANGED sweepRest

SweepNext == AddCsvRow \/ SweepHazard


---------------------------------------------------------------------------
(* Specifications: one per component, the other components at rest *)

\* Gate component started, the others at rest
GateInit ==
    /\ p = <<>>
    /\ thr \in Thresholds
    /\ thr_series \in ThrSchedules(thr)
    /\ k \in 1 .. MaxWindow
    /\ ema_span \in 1 .. MaxWindow
    /\ min_sep_min \in Cooldowns
    /\ seen = <<>>
    /\ last = <<>>
    /\ df = <<>> /\ df_alt = <<>> /\ window_days = 1 /\ per_hod = FALSE
    /\ winsor = [n |-> 1, d |-> 100]
    /\ X_index = {} /\ y = <<>> /\ n_blocks = 1 /\ embargo_minutes = 0
    /\ max_combinations = 0 /\ splits = <<>> /\ model = <<>> /\ preds = <<>>
    /\ evaluated = <<>> /\ pc = "idle"
    /\ state = <<>> /\ state_h = <<>> /\ hyst_last = "range" /\ cnt = 0
    /\ hysteresis_bars = 1 /\ horizon_min = 1 /\ labels = <<>>
    /\ oof = <<>> /\ eval_H = 1 /\ eval_thr = 1 /\ eval_sep_min = 0
    /\ metrics = <<>>
    /\ pvals = <<>> /\ qvals = <<>>
    /\ pair_values = <<>> /\ results = <<>> /\ rng_stream = <<>> /\ rng_pos = 0
    /\ flips_index = {} /\ features_index = {} /\ lag_list = {}
    /\ min_events = 1 /\ evt_todo = {} /\ evt_results = {} /\ evt_pc = "idle"
    /\ computed_cols = {} /\ cfg_selected = <<>> /\ cfg_include = <<>>
    /\ kept_cols = {} /\ sel_pc = "idle"
    /\ op = <<>> /\ op_used = <<>> /\ op_pc = "idle"
    /\ probs_csv = <<>> /\ sweep_out = <<>> /\ sweep_best = <<>>

SpecGate == GateInit /\ [][GateNext]_vars

\* Norm component started, the others at rest
NormInit ==
    /\ df = <<>>
    /\ df_alt = <<>>
    /\ window_days \in 1 .. MaxWindowDays
    /\ per_hod \in BOOLEAN
    /\ winsor \in WinsorPcts
    /\ p = <<>> /\ thr_series = <<>> /\ thr = 1 /\ k = 1 /\ ema_span = 1
    /\ min_sep_min = 0 /\ seen = <<>> /\ last = <<>>
    /\ X_index = {} /\ y = <<>> /\ n_blocks = 1 /\ embargo_minutes = 0
    /\ max_combinations = 0 /\ splits = <<>> /\ model = <<>> /\ preds = <<>>
    /\ evaluated = <<>> /\ pc = "idle"
    /\ state = <<>> /\ state_h = <<>> /\ hyst_last = "range" /\ cnt = 0
    /\ hysteresis_bars = 1 /\ horizon_min = 1 /\ labels = <<>>
    /\ oof = <<>> /\ eval_H = 1 /\ eval_thr = 1 /\ eval_sep_min = 0
    /\ metrics = <<>>
    /\ pvals = <<>> /\ qvals = <<>>
    /\ pair_values = <<>> /\ results = <<>> /\ rng_stream = <<>> /\ rng_pos = 0
    /\ flips_index = {} /\ features_index = {} /\ lag_list = {}
    /\ min_events = 1 /\ evt_todo = {} /\ evt_results = {} /\ evt_pc = "idle"
    /\ computed_cols = {} /\ cfg_selected = <<>> /\ cfg_include = <<>>
    /\ kept_cols = {} /\ sel_pc = "idle"
    /\ op = <<>> /\ op_used = <<>> /\ op_pc = "idle"
    /\ probs_csv = <<>> /\ sweep_out = <<>> /\ sweep_best = <<>>

SpecNorm == NormInit /\ [][NormNext]_vars

\* Hazard component started, the others at rest
HazardInit ==
    /\ X_index \in SUBSET CandidateTs
    /\ y \in [X_index -> {0, 1}]
    /\ n_blocks \in 1 .. MaxBlocks
    /\ embargo_minutes \in 0 .. MaxEmbargo
    /\ max_combinations \in 0 .. MaxCombos
    /\ splits = <<>>
    /\ model = <<>>
    /\ preds = [t \in X_index |-> <<>>]
    /\ evaluated = <<>>
    /\ pc = "split"
    /\ p = <<>> /\ thr_series = <<>> /\ thr = 1 /\ k = 1 /\ ema_span = 1
    /\ min_sep_min = 0 /\ seen = <<>> /\ last = <<>>
    /\ df = <<>> /\ df_alt = <<>> /\ window_days = 1 /\ per_hod = FALSE
    /\ winsor = [n |-> 1, d |-> 100]
    /\ state = <<>> /\ state_h = <<>> /\ hyst_last = "range" /\ cnt = 0
    /\ hysteresis_bars = 1 /\ horizon_min = 1 /\ labels = <<>>
    /\ oof = <<>> /\ eval_H = 1 /\ eval_thr = 1 /\ eval_sep_min = 0
    /\ metrics = <<>>
    /\ pvals = <<>> /\ qvals = <<>>
    /\ pair_values = <<>> /\ results = <<>> /\ rng_stream = <<>> /\ rng_pos = 0
    /\ flips_index = {} /\ features_index = {} /\ lag_list = {}
    /\ min_events = 1 /\ evt_todo = {} /\ evt_results = {} /\ evt_pc = "idle"
    /\ computed_cols = {} /\ cfg_selected = <<>> /\ cfg_include = <<>>
    /\ kept_cols = {} /\ sel_pc = "idle"
    /\ op = <<>> /\ op_used = <<>> /\ op_pc = "idle"
    /\ probs_csv = <<>> /\ sweep_out = <<>> /\ sweep_best = <<>>

SpecHazard == HazardInit /\ [][HazardNext]_vars

\* Regime component started, the others at rest
RegimeInit ==
    /\ state = <<"range">>
    /\ state_h = <<"range">>
    /\ hyst_last = "range"
    /\ cnt = 0
    /\ hysteresis_bars \in 1 .. MaxHyst
    /\ horizon_min \in 1 .. MaxHorizon
    /\ labels = <<>>
    /\ p = <<>> /\ thr_series = <<>> /\ thr = 1 /\ k = 1 /\ ema_span = 1
    /\ min_sep_min = 0 /\ seen = <<>> /\ last = <<>>
    /\ df = <<>> /\ df_alt = <<>> /\ window_days = 1 /\ per_hod = FALSE
    /\ winsor = [n |-> 1, d |-> 100]
    /\ X_index = {} /\ y = <<>> /\ n_blocks = 1 /\ embargo_minutes = 0
    /\ max_combinations = 0 /\ splits = <<>> /\ model = <<>> /\ preds = <<>>
    /\ evaluated = <<>> /\ pc = "idle"
    /\ oof = <<>> /\ eval_H = 1 /\ eval_thr = 1 /\ eval_sep_min = 0
    /\ metrics = <<>>
    /\ pvals = <<>> /\ qvals = <<>>
    /\ pair_values = <<>> /\ results = <<>> /\ rng_stream = <<>> /\ rng_pos = 0
    /\ flips_index = {} /\ features_index = {} /\ lag_list = {}
    /\ min_events = 1 /\ evt_todo = {} /\ evt_results = {} /\ evt_pc = "idle"
    /\ computed_cols = {} /\ cfg_selected = <<>> /\ cfg_include = <<>>
    /\ kept_cols = {} /\ sel_pc = "idle"
    /\ op = <<>> /\ op_used = <<>> /\ op_pc = "idle"
    /\ probs_csv = <<>> /\ sweep_out = <<>> /\ sweep_best = <<>>

SpecRegime == RegimeInit /\ [][RegimeNext]_vars

\* Metric component started, the others at rest
MetricInit ==
    /\ oof = <<>>
    /\ eval_H \in {HalfDay, MinPerDay}
    /\ eval_thr \in Thresholds
    /\ eval_sep_min \in {0, HalfDay}
    /\ metrics = <<>>
    /\ p = <<>> /\ thr_series = <<>> /\ thr = 1 /\ k = 1 /\ ema_span = 1
    /\ min_sep_min = 0 /\ seen = <<>> /\ last = <<>>
    /\ df = <<>> /\ df_alt = <<>> /\ window_days = 1 /\ per_hod = FALSE
    /\ winsor = [n |-> 1, d |-> 100]
    /\ X_index = {} /\ y = <<>> /\ n_blocks = 1 /\ embargo_minutes = 0
    /\ max_combinations = 0 /\ splits = <<>> /\ model = <<>> /\ preds = <<>>
    /\ evaluated = <<>> /\ pc = "idle"
    /\ state = <<>> /\ state_h = <<>> /\ hyst_last = "range" /\ cnt = 0
    /\ hysteresis_bars = 1 /\ horizon_min = 1 /\ labels = <<>>
    /\ pvals = <<>> /\ qvals = <<>>
    /\ pair_values = <<>> /\ results = <<>> /\ rng_stream = <<>> /\ rng_pos = 0
    /\ flips_index = {} /\ features_index = {} /\ lag_list = {}
    /\ min_events = 1 /\ evt_todo = {} /\ evt_results = {} /\ evt_pc = "idle"
    /\ computed_cols = {} /\ cfg_selected = <<>> /\ cfg_include = <<>>
    /\ kept_cols = {} /\ sel_pc = "idle"
    /\ op = <<>> /\ op_used = <<>> /\ op_pc = "idle"
    /\ probs_csv = <<>> /\ sweep_out = <<>> /\ sweep_best = <<>>

SpecMetric == MetricInit /\ [][MetricNext]_vars


\* FDR component started, the others at rest
FdrInit ==
    /\ pvals = <<>>
    /\ qvals = <<>>
    /\ p = <<>> /\ thr_series = <<>> /\ thr = 1 /\ k = 1 /\ ema_span = 1
    /\ min_sep_min = 0 /\ seen = <<>> /\ last = <<>>
    /\ df = <<>> /\ df_alt = <<>> /\ window_days = 1 /\ per_hod = FALSE
    /\ winsor = [n |-> 1, d |-> 100]
    /\ X_index = {} /\ y = <<>> /\ n_blocks = 1 /\ embargo_minutes = 0
    /\ max_combinations = 0 /\ splits = <<>> /\ model = <<>> /\ preds = <<>>
    /\ evaluated = <<>> /\ pc = "idle"
    /\ state = <<>> /\ state_h = <<>> /\ hyst_last = "range" /\ cnt = 0
    /\ hysteresis_bars = 1 /\ horizon_min = 1 /\ labels = <<>>
    /\ oof = <<>> /\ eval_H = 1 /\ eval_thr = 1 /\ eval_sep_min = 0
    /\ metrics = <<>>
    /\ pair_values = <<>> /\ results = <<>> /\ rng_stream = <<>> /\ rng_pos = 0
    /\ flips_index = {} /\ features_index = {} /\ lag_list = {}
    /\ min_events = 1 /\ evt_todo = {} /\ evt_results = {} /\ evt_pc = "idle"
    /\ computed_cols = {} /\ cfg_selected = <<>> /\ cfg_include = <<>>
    /\ kept_cols = {} /\ sel_pc = "idle"
    /\ op = <<>> /\ op_used = <<>> /\ op_pc = "idle"
    /\ probs_csv = <<>> /\ sweep_out = <<>> /\ sweep_best = <<>>

SpecFdr == FdrInit /\ [][FdrNext]_vars


\* Permutation component started, the others at rest
PermInit ==
    /\ pair_values \in [PairIds -> SeqsUpTo(PermValues, MaxVals)]
    /\ results = [i \in PairIds |-> <<>>]
    /\ rng_stream \in [1 .. StreamLen -> {-1, 1}]
    /\ rng_pos = 0
    /\ p = <<>> /\ thr_series = <<>> /\ thr = 1 /\ k = 1 /\ ema_span = 1
    /\ min_sep_min = 0 /\ seen = <<>> /\ last = <<>>
    /\ df = <<>> /\ df_alt = <<>> /\ window_days = 1 /\ per_hod = FALSE
    /\ winsor = [n |-> 1, d |-> 100]
    /\ X_index = {} /\ y = <<>> /\ n_blocks = 1 /\ embargo_minutes = 0
    /\ max_combinations = 0 /\ splits = <<>> /\ model = <<>> /\ preds = <<>>
    /\ evaluated = <<>> /\ pc = "idle"
    /\ state = <<>> /\ state_h = <<>> /\ hyst_last = "range" /\ cnt = 0
    /\ hysteresis_bars = 1 /\ horizon_min = 1 /\ labels = <<>>
    /\ oof = <<>> /\ eval_H = 1 /\ eval_thr = 1 /\ eval_sep_min = 0
    /\ metrics = <<>>
    /\ pvals = <<>> /\ qvals = <<>>
    /\ flips_index = {} /\ features_index = {} /\ lag_list = {}
    /\ min_events = 1 /\ evt_todo = {} /\ evt_results = {} /\ evt_pc = "idle"
    /\ computed_cols = {} /\ cfg_selected = <<>> /\ cfg_include = <<>>
    /\ kept_cols = {} /\ sel_pc = "idle"
    /\ op = <<>> /\ op_used = <<>> /\ op_pc = "idle"
    /\ probs_csv = <<>> /\ sweep_out = <<>> /\ sweep_best = <<>>

SpecPerm == PermInit /\ [][PermNext]_vars


\* Event-study component started, the others at rest
EventInit ==
    /\ \E n \in 0 .. MaxFlips : flips_index = FirstFlip .. (FirstFlip + n - 1)
    /\ \E holes \in SUBSET EvtHoles :
            features_index = (0 .. (FirstFlip + MaxFlips)) \ holes
    /\ lag_list \in (SUBSET EvtLags) \ {{}}
    /\ min_events \in {1, MinValues}
    /\ evt_todo = {}
    /\ evt_results = {}
    /\ evt_pc = "start"
    /\ p = <<>> /\ thr_series = <<>> /\ thr = 1 /\ k = 1 /\ ema_span = 1
    /\ min_sep_min = 0 /\ seen = <<>> /\ last = <<>>
    /\ df = <<>> /\ df_alt = <<>> /\ window_days = 1 /\ per_hod = FALSE
    /\ winsor = [n |-> 1, d |-> 100]
    /\ X_index = {} /\ y = <<>> /\ n_blocks = 1 /\ embargo_minutes = 0
    /\ max_combinations = 0 /\ splits = <<>> /\ model = <<>> /\ preds = <<>>
    /\ evaluated = <<>> /\ pc = "idle"
    /\ state = <<>> /\ state_h = <<>> /\ hyst_last = "range" /\ cnt = 0
    /\ hysteresis_bars = 1 /\ horizon_min = 1 /\ labels = <<>>
    /\ oof = <<>> /\ eval_H = 1 /\ eval_thr = 1 /\ eval_sep_min = 0
    /\ metrics = <<>>
    /\ pvals = <<>> /\ qvals = <<>>
    /\ pair_values = <<>> /\ results = <<>> /\ rng_stream = <<>> /\ rng_pos = 0
    /\ computed_cols = {} /\ cfg_selected = <<>> /\ cfg_include = <<>>
    /\ kept_cols = {} /\ sel_pc = "idle"
    /\ op = <<>> /\ op_used = <<>> /\ op_pc = "idle"
    /\ probs_csv = <<>> /\ sweep_out = <<>> /\ sweep_best = <<>>

SpecEvent == EventInit /\ [][EventNext]_vars


\* Operating-point component started, the others at rest
OpInit ==
    /\ \E f \in [OpKeys -> -1 .. MaxWindow] :
        /\ \A key \in OpKeys : f[key] = -1 \/ f[key] \in OpValues(key)
        /\ op = [key \in OpKeys |-> IF f[key] = -1 THEN <<>> ELSE <<f[key]>>]
    /\ op_used = <<>>
    /\ op_pc = "start"
    /\ p = <<>> /\ thr_series = <<>> /\ thr = 1 /\ k = 1 /\ ema_span = 1
    /\ min_sep_min = 0 /\ seen = <<>> /\ last = <<>>
    /\ df = <<>> /\ df_alt = <<>> /\ window_days = 1 /\ per_hod = FALSE
    /\ winsor = [n |-> 1, d |-> 100]
    /\ X_index = {} /\ y = <<>> /\ n_blocks = 1 /\ embargo_minutes = 0
    /\ max_combinations = 0 /\ splits = <<>> /\ model = <<>> /\ preds = <<>>
    /\ evaluated = <<>> /\ pc = "idle"
    /\ state = <<>> /\ state_h = <<>> /\ hyst_last = "range" /\ cnt = 0
    /\ hysteresis_bars = 1 /\ horizon_min = 1 /\ labels = <<>>
    /\ oof = <<>> /\ eval_H = 1 /\ eval_thr = 1 /\ eval_sep_min = 0
    /\ metrics = <<>>
    /\ pvals = <<>> /\ qvals = <<>>
    /\ pair_values = <<>> /\ results = <<>> /\ rng_stream = <<>> /\ rng_pos = 0
    /\ flips_index = {} /\ features_index = {} /\ lag_list = {}
    /\ min_events = 1 /\ evt_todo = {} /\ evt_results = {} /\ evt_pc = "idle"
    /\ computed_cols = {} /\ cfg_selected = <<>> /\ cfg_include = <<>>
    /\ kept_cols = {} /\ sel_pc = "idle"
    /\ probs_csv = <<>> /\ sweep_out = <<>> /\ sweep_best = <<>>

SpecOp == OpInit /\ [][OpNext]_vars


\* Selection component started, the others at rest
SelectInit ==
    /\ computed_cols \in (SUBSET ComputedNames) \ {{}}
    /\ \E S \in SUBSET ColNames, there \in BOOLEAN :
            cfg_selected = IF there THEN <<S>> ELSE <<>>
    /\ \E S \in SUBSET ColNames, there \in BOOLEAN :
            cfg_include = IF there THEN <<S>> ELSE <<>>
    /\ kept_cols = {}
    /\ sel_pc = "start"
    /\ p = <<>> /\ thr_series = <<>> /\ thr = 1 /\ k = 1 /\ ema_span = 1
    /\ min_sep_min = 0 /\ seen = <<>> /\ last = <<>>
    /\ df = <<>> /\ df_alt = <<>> /\ window_days = 1 /\ per_hod = FALSE
    /\ winsor = [n |-> 1, d |-> 100]
    /\ X_index = {} /\ y = <<>> /\ n_blocks = 1 /\ embargo_minutes = 0
    /\ max_combinations = 0 /\ splits = <<>> /\ model = <<>> /\ preds = <<>>
    /\ evaluated = <<>> /\ pc = "idle"
    /\ state = <<>> /\ state_h = <<>> /\ hyst_last = "range" /\ cnt = 0
    /\ hysteresis_bars = 1 /\ horizon_min = 1 /\ labels = <<>>
    /\ oof = <<>> /\ eval_H = 1 /\ eval_thr = 1 /\ eval_sep_min = 0
    /\ metrics = <<>>
    /\ pvals = <<>> /\ qvals = <<>>
    /\ pair_values = <<>> /\ results = <<>> /\ rng_stream = <<>> /\ rng_pos = 0
    /\ flips_index = {} /\ features_index = {} /\ lag_list = {}
    /\ min_events = 1 /\ evt_todo = {} /\ evt_results = {} /\ evt_pc = "idle"
    /\ op = <<>> /\ op_used = <<>> /\ op_pc = "idle"
    /\ probs_csv = <<>> /\ sweep_out = <<>> /\ sweep_best = <<>>

SpecSelect == SelectInit /\ [][SelectNext]_vars


\* Sweep component started with a one-row hazard_probs.csv, the others at
\* rest
SweepInit ==
    /\ \E v \in CsvProbs, lbl \in {0, 1} :
          probs_csv = <<[ts |-> 0, v |-> v, y |-> lbl]>>
    /\ sweep_out = <<>>
    /\ sweep_best = <<>>
    /\ p = <<>> /\ thr_series = <<>> /\ thr = 1 /\ k = 1 /\ ema_span = 1
    /\ min_sep_min = 0 /\ seen = <<>> /\ last = <<>>
    /\ df = <<>> /\ df_alt = <<>> /\ window_days = 1 /\ per_hod = FALSE
    /\ winsor = [n |-> 1, d |-> 100]
    /\ X_index = {} /\ y = <<>> /\ n_blocks = 1 /\ embargo_minutes = 0
    /\ max_combinations = 0 /\ splits = <<>> /\ model = <<>> /\ preds = <<>>
    /\ evaluated = <<>> /\ pc = "idle"
    /\ state = <<>> /\ state_h = <<>> /\ hyst_last = "range" /\ cnt = 0
    /\ hysteresis_bars = 1 /\ horizon_min = 1 /\ labels = <<>>
    /\ oof = <<>> /\ eval_H = 1 /\ eval_thr = 1 /\ eval_sep_min = 0
    /\ metrics = <<>>
    /\ pvals = <<>> /\ qvals = <<>>
    /\ pair_values = <<>> /\ results = <<>> /\ rng_stream = <<>> /\ rng_pos = 0
    /\ flips_index = {} /\ features_index = {} /\ lag_list = {}
    /\ min_events = 1 /\ evt_todo = {} /\ evt_results = {} /\ evt_pc = "idle"
    /\ computed_cols = {} /\ cfg_selected = <<>> /\ cfg_include = <<>>
    /\ kept_cols = {} /\ sel_pc = "idle"
    /\ op = <<>> /\ op_used = <<>> /\ op_pc = "idle"

SpecSweep == SweepInit /\ [][SweepNext]_vars


---------------------------------------------------------------------------
(* Claims about the alert gate, checked under SpecGate *)

\* C1: streaming/batch parity.  The alerts recorded by replaying the gate on
\* every growing prefix (recording the prefix's most recent alert whenever
\* it differs from the one recorded before) are exactly the alerts of one
\* call of gate_timeseries on the whole series.
C1_GateParity == seen = GateAlerts

\* C1 witness: the replay of a smoothed gate has recorded two alerts and
\* passed over an on-sample that the cooldown suppressed.
C1_Witness ==
    /\ Len(seen) >= 2
    /\ ema_span > 1
    /\ Len(GateOnIndex) > Len(seen)

SepOk(A) == \A i \in 1 .. (Len(A) - 1) : A[i + 1] - A[i] >= min_sep_min

\* C2: cooldown invariant.  Any two consecutive alerts emitted by
\* gate_timeseries, and by gate_with_series_threshold, are at least
\* min_separation minutes apart.
C2_GateCooldown == SepOk(GateAlerts) /\ SepOk(GateSeriesAlerts)

\* C2 witness: both gates emitted two alerts under a positive cooldown and
\* an on-sample inside the cooldown was suppressed.
C2_Witness ==
    LET A == GateAlerts
    IN  /\ min_sep_min > 0
        /\ Len(A) >= 2 /\ Len(GateSeriesAlerts) >= 2
        /\ Len(GateOnIndex) > Len(A)

\* C3: confirmation invariant.  An alert at sample i means the smoothed
\* probability was >= thr at each of the k samples i-k+1 .. i, so no alert
\* lies among the first k-1 samples.
C3_GateConfirmation ==
    LET s == GateSmoothed
        A == GateAlerts
    IN  \A a \in 1 .. Len(A) :
            \E i \in 1 .. Len(s) :
                /\ s[i].ts = A[a]
                /\ i >= k
                /\ \A j \in (i - k + 1) .. i : s[j].num >= thr * s[j].den

\* C3 witness: with k > 1 an alert was emitted, and the first sample was
\* above the threshold without raising one.
C3_Witness ==
    LET s == GateSmoothed
        A == GateAlerts
    IN  /\ k > 1
        /\ Len(A) >= 1
        /\ s[1].num >= thr * s[1].den
        /\ A[1] > s[1].ts

\* C10: operating-point parity across consumers.  The alerts
\* evaluate_hazard scores and the alerts run_gate_backtest uses each equal
\* the alerts gate_timeseries emits at the same operating point
\* (threshold, confirm_k, ema_span, min_separation).
C10_OperatingPointParity ==
    /\ evaluate_hazard_alerts(p, thr, min_sep_min) = GateAlerts
    /\ run_gate_backtest_alerts(p, thr) = GateAlerts

\* C20: gate emit rule.  Every alert is an on-sample, and an on-sample t is
\* an alert exactly when no alert was emitted before t or t is at least
\* min_sep_min after the most recent alert emitted before t (suppressed
\* on-samples do not count).
C20_GateEmitRule ==
    LET idx == GateOnIndex
        A == GateAlerts
        alertSet == {A[a] : a \in 1 .. Len(A)}
    IN  /\ \A a \in 1 .. Len(A) : \E i \in 1 .. Len(idx) : idx[i] = A[a]
        /\ \A i \in 1 .. Len(idx) :
              LET before == {t \in alertSet : t < idx[i]}
              IN  (idx[i] \in alertSet) <=>
                      (before = {} \/ idx[i] - SetMax(before) >= min_sep_min)

\* C20 witness: an on-run of three samples in which the second is suppressed
\* and the third is emitted although it is closer than min_sep_min to the
\* suppressed one.
C20_Witness ==
    LET idx == GateOnIndex
        A == GateAlerts
    IN  /\ Len(idx) = 3
        /\ A = <<idx[1], idx[3]>>
        /\ idx[3] - idx[2] < min_sep_min

---------------------------------------------------------------------------
(* Claims about the robust normaliser, checked under SpecNorm *)

AgreeBefore(a, b, t) ==
    {a[i] : i \in {i \in 1 .. Len(a) : a[i].ts < t}}
        = {b[i] : i \in {i \in 1 .. Len(b) : b[i].ts < t}}

AgreeUpTo(a, b, t) ==
    {a[i] : i \in {i \in 1 .. Len(a) : a[i].ts <= t}}
        = {b[i] : i \in {i \in 1 .. Len(b) : b[i].ts <= t}}

SameAt(out1, out2, i) ==
    \E j \in 1 .. Len(out2) : out2[j] = out1[i]

\* C4: normalisation causality.  For every time t of the output, two runs
\* whose inputs agree on all rows before t (and may differ at or after t)
\* give the same normalised value at t.
C4_NormCausality ==
    \A i \in 1 .. Len(NormOut) :
        AgreeBefore(df, df_alt, NormOut[i].ts) => SameAt(NormOut, NormOutAlt, i)

\* The same with the inputs agreeing at t as well: only rows strictly after
\* t differ.
C4_NormCausalityStrictFuture ==
    \A i \in 1 .. Len(NormOut) :
        AgreeUpTo(df, df_alt, NormOut[i].ts) => SameAt(NormOut, NormOutAlt, i)

---------------------------------------------------------------------------
(* Claims about the CPCV splitter and the hazard run, checked under        *)
(* SpecHazard                                                              *)

\* C5: CPCV embargo invariant.  In every fold, every train timestamp is
\* farther than embargo_minutes from the test block's span (before
\* min(test) - embargo or after max(test) + embargo), and train and test
\* are disjoint.
C5_CpcvEmbargo ==
    \A i \in 1 .. Len(splits) :
        /\ \A t \in splits[i].train :
              \/ t < SetMin(splits[i].test) - embargo_minutes
              \/ t > SetMax(splits[i].test) + embargo_minutes
        /\ splits[i].train \cap splits[i].test = {}

\* C5 witness: a fold with a non-empty train set from which a timestamp of
\* another block, lying within the positive embargo of the test span, was
\* removed.
C5_Witness ==
    /\ embargo_minutes > 0
    /\ \E i \in 1 .. Len(splits) :
        /\ splits[i].train # {}
        /\ \E t \in X_index \ (splits[i].train \cup splits[i].test) :
              /\ t >= SetMin(splits[i].test) - embargo_minutes
              /\ t <= SetMax(splits[i].test) + embargo_minutes

\* C7: out-of-fold purity.  The model that predicts a fold's test
\* timestamps was fit on none of them.
C7_OofPurity ==
    \A i \in 1 .. Len(evaluated) :
        evaluated[i].test \cap evaluated[i].fit = {}

TestOverlap(sp) ==
    \E i, j \in 1 .. Len(sp) : i # j /\ sp[i].test \cap sp[j].test # {}

\* C8: OOF assembly covers each timestamp exactly once.  When the run has
\* evaluated its folds, every timestamp of the cleaned index is in the test
\* set of exactly one fold, and a fold set with overlapping test sets never
\* gets evaluated.
C8_OofCoversOnce ==
    pc = "done" =>
        /\ \A t \in X_index :
              Cardinality({i \in 1 .. Len(evaluated) : t \in evaluated[i].test}) = 1
        /\ ~TestOverlap(splits)

\* The folds cpcv_split_by_months returns for the run's inputs
RawFolds ==
    cpcv_split_by_months(X_index, n_blocks, embargo_minutes, max_combinations)

\* A fold survives: train and test are non-empty within the valid index and
\* the training labels hold both classes
FoldValid(f) ==
    /\ f.train \cap X_index # {}
    /\ f.test \cap X_index # {}
    /\ {y[t] : t \in f.train \cap X_index} = {0, 1}

\* C18: fold cleaning contract.  From training on, the folds of the run are
\* exactly the valid folds in their original order, each intersected with
\* the valid index; when no fold is valid the run fails, and a failed run has
\* trained no model and written no prediction.
C18_FoldCleaning ==
    LET raw == RawFolds
        keep == {i \in 1 .. Len(raw) : FoldValid(raw[i])}
    IN  /\ pc \in {"train", "eval", "done", "failed"} =>
            /\ Len(splits) = Cardinality(keep)
            /\ \A i \in keep :
                  splits[Cardinality({i2 \in keep : i2 <= i})] =
                      [train |-> raw[i].train \cap X_index,
                       test |-> raw[i].test \cap X_index]
            /\ (keep = {}) <=> (pc = "failed")
        /\ pc = "failed" =>
            /\ model = <<>>
            /\ evaluated = <<>>
            /\ \A t \in X_index : preds[t] = <<>>
        /\ model # <<>> => keep # {}

\* C18 witness: the run is about to train on some folds after a fold with a
\* non-empty train set of one class only was dropped.
C18_Witness ==
    /\ pc = "train"
    /\ Len(splits) >= 1
    /\ \E i \in 1 .. Len(RawFolds) :
          /\ RawFolds[i].train # {}
          /\ ~FoldValid(RawFolds[i])

---------------------------------------------------------------------------
(* Claims about the regime detector, checked under SpecRegime *)

\* C6: label definition.  y[m] = 1 exactly when some flip f has
\* m < f <= m + H, and y[m] = 0 otherwise.
C6_LabelDefinition ==
    labels # <<>> =>
        \A m \in DOMAIN labels[1] :
            labels[1][m] = 1 <=>
                \E f \in find_flips(state_h) :
                    m < BarTs(f) /\ BarTs(f) <= m + horizon_min

\* C9: hysteresis persistence.  Whenever the filtered state changes to a
\* new state X at a macro bar, the raw state was X at each of the
\* hysteresis_bars consecutive bars ending there.  (Bar b is element b + 1
\* of state and state_h.)
C9_HysteresisPersistence ==
    \A i \in 2 .. Len(state_h) :
        state_h[i] # state_h[i - 1] =>
            /\ i - hysteresis_bars + 1 >= 1
            /\ \A j \in (i - hysteresis_bars + 1) .. i : state[j] = state_h[i]

---------------------------------------------------------------------------
(* Claims about the hazard metrics, checked under SpecMetric *)

\* The alerts evaluate_hazard keeps on the evaluated rows
EvalAlerts == evaluate_hazard_alerts(PredRows(oof), eval_thr, eval_sep_min)

\* t lies in the pre-flip window [f - H, f] of some flip f
InPreFlipWindow(t) ==
    \E f \in LabelFlips(oof) : f - eval_H <= t /\ t <= f

\* C11: false-alarm metric.  false_alarms_per_day is the number of alerts
\* outside every pre-flip window of length H divided by the number of days
\* spanned (here the calendar days from the first to the last predicted
\* row); an alert inside a pre-flip window is not counted.
C11_FalseAlarmMetric ==
    metrics # <<>> =>
        LET A == EvalAlerts
            outside == {i \in 1 .. Len(A) : ~InPreFlipWindow(A[i])}
            days == DayOf(Last(PredRows(oof)).ts) - DayOf(PredRows(oof)[1].ts) + 1
        IN  metrics[1].false_alarms_per_day = Frac(Cardinality(outside), days)

---------------------------------------------------------------------------
(* Claims about bh_fdr, checked under SpecFdr *)

\* The r-th smallest of the p-values
RthSmallest(r) ==
    CHOOSE v \in {pvals[j] : j \in 1 .. Len(pvals)} :
        /\ Cardinality({j \in 1 .. Len(pvals) : FracLess(pvals[j], v)}) < r
        /\ Cardinality({j \in 1 .. Len(pvals) : ~FracLess(v, pvals[j])}) >= r

\* p(r) * m / r as the program's arithmetic evaluates it
StepUpTerm(r) == FlDiv(FlMul(RthSmallest(r), Len(pvals)), r)

\* The lowest rank of pvals[i] (1 + the number of smaller p-values)
RankOf(i) == 1 + Cardinality({j \in 1 .. Len(pvals) : FracLess(pvals[j], pvals[i])})

\* C12: BH-FDR step-up values.  The q-value of the r-th smallest p-value is
\* the minimum over the ranks r2 >= r of p(r2) * m / r2, and the q-values
\* taken in ascending order of the p-values never decrease.
C12_BhStepUp ==
    qvals # <<>> =>
        LET q == qvals[1]
            m == Len(pvals)
        IN  /\ \A i \in 1 .. m :
                /\ \E r2 \in RankOf(i) .. m : q[i] = StepUpTerm(r2)
                /\ \A r2 \in RankOf(i) .. m : ~FracLess(StepUpTerm(r2), q[i])
            /\ \A i, j \in 1 .. m :
                ~FracLess(pvals[j], pvals[i]) => ~FracLess(q[j], q[i])

\* C12 witness: three p-values given out of order, where the running minimum
\* lowers the q-value of the smallest one below its own term p(1) * m / 1.
C12_Witness ==
    /\ qvals # <<>>
    /\ Len(pvals) = 3
    /\ FracLess(pvals[2], pvals[1])
    /\ \E i \in 1 .. 3 : RankOf(i) = 1 /\ FracLess(qvals[1][i], StepUpTerm(1))

\* C13: BH-FDR lower bound.  Every q-value is at least its p-value.
C13_BhLowerBound ==
    qvals # <<>> =>
        \A i \in 1 .. Len(pvals) : ~FracLess(qvals[1][i], pvals[i])

---------------------------------------------------------------------------
(* Claims about the permutation test, checked under SpecPerm *)

\* The negation of a value vector
Negated(v) == [i \in 1 .. Len(v) |-> 0 - v[i]]

\* C14: permutation-test symmetry.  The two-sided p-value reported for a
\* value vector equals the p-value of the negated vector under the same
\* n_perm and seed.
C14_PermSymmetry ==
    \A i \in PairIds :
        results[i] # <<>> =>
            results[i][1].p_value =
                permutation_test_series(Negated(pair_values[i]), 0).p_value

\* C14 witness: a tested vector of two values with a non-zero mean whose
\* p-value is below one (some surrogate mean is smaller in size).
C14_Witness ==
    \E i \in PairIds :
        /\ results[i] # <<>>
        /\ Len(pair_values[i]) >= 2
        /\ SeqSum(pair_values[i]) # 0
        /\ FracLess(results[i][1].p_value, Frac(1, 1))


\* C19: order-independent, reproducible event study.  The (stat, p_value)
\* reported for a pair is the permutation test of that pair's gathered
\* values under n_perm and the fixed seed, whichever pairs were tested
\* before it; pairs with the same values get the same result.
C19_EventStudyOrderFree ==
    /\ \A i \in PairIds :
        results[i] # <<>> =>
            results[i][1] = permutation_test_series(pair_values[i], 0)
    /\ \A i, j \in PairIds :
        (results[i] # <<>> /\ results[j] # <<>>
            /\ pair_values[i] = pair_values[j]) => results[i] = results[j]

\* C19 witness: both pairs are tested, the pair tested last after a
\* generator that had already drawn, and their p-values differ.
C19_Witness ==
    /\ \A i \in PairIds : results[i] # <<>> /\ Len(pair_values[i]) >= 1
    /\ rng_pos > 0
    /\ results[1][1].p_value # results[2][1].p_value

---------------------------------------------------------------------------
(* Claims about the event study, checked under SpecEvent *)

\* C15: minimum-events skip.  The run is never aborted, and when it returns
\* its results hold a row for a (feature, lag) pair exactly when at least
\* min_events (the configured minimum) flips have flip_time + lag in the
\* feature index.
C15_MinEventsSkip ==
    /\ evt_pc # "failed"
    /\ evt_pc = "done" =>
        \A c \in 1 .. Len(EvtCols), l \in lag_list :
            (\E row \in evt_results :
                row.feature = EvtCols[c] /\ row.lag_min = l)
            <=> GatheredCount(flips_index, features_index, l) >= min_events

---------------------------------------------------------------------------
(* Claims about the operating point, checked under SpecOp *)

\* The file lacks one of threshold, confirm_k, ema_span, min_separation
OpIncomplete ==
    \/ op["thr"] = <<>> /\ op["alert_threshold"] = <<>>
    \/ op["k"] = <<>> /\ op["confirm_k"] = <<>>
    \/ op["ema"] = <<>> /\ op["ema_span"] = <<>>
    \/ op["sep"] = <<>> /\ op["min_separation_min"] = <<>>

\* C16: an incomplete operating point is fatal.  Whenever the file lacks one
\* of the four parameters, no consumer runs the gate or writes metrics: it
\* stops with an error and substitutes no default.
C16_IncompleteOpFatal ==
    OpIncomplete => (op_pc # "written" /\ op_used = <<>>)

---------------------------------------------------------------------------
(* Claims about the feature selection, checked under SpecSelect *)

\* The configured feature list names none of the computed columns
NoOverlap ==
    LET names == SelectedNames(cfg_selected, cfg_include)
    IN  names # <<>> /\ names[1] \cap computed_cols = {}

\* C17: structural failures abort.  A run whose configured feature list has
\* no overlap with the computed feature columns does not go on: it keeps no
\* columns and reaches no later step.
C17_StructuralFailuresAbort ==
    NoOverlap => (sel_pc = "start" /\ kept_cols = {})


---------------------------------------------------------------------------
(* Claims about the series-threshold gate *)

\* The threshold series that holds the constant thr at every timestamp of p
ConstThrSeries ==
    [i \in 1 .. Len(p) |-> [ts |-> p[i].ts, v |-> thr]]

\* C21: for any probability series p, any k, ema_span and min_sep_min and
\* any constant thr, gate_with_series_threshold called with a threshold
\* series equal to thr at every timestamp of p returns exactly the alerts
\* of gate_timeseries with that constant threshold.
C21_SeriesThresholdRefines ==
    gate_with_series_threshold(p, ConstThrSeries, k, ema_span, min_sep_min)
        = gate_timeseries(p, thr, k, ema_span, min_sep_min)

\* an alert is raised at a sample whose smoothed value equals the threshold
\* exactly, with confirmation or smoothing switched on
C21_Witness ==
    /\ k > 1 \/ ema_span > 1
    /\ Len(p) >= 2
    /\ \E i \in 1 .. Len(GateSmoothed) :
          /\ GateSmoothed[i].num = thr * GateSmoothed[i].den
          /\ GateSmoothed[i].ts \in
                {GateAlerts[j] : j \in 1 .. Len(GateAlerts)}
    /\ gate_with_series_threshold(p, ConstThrSeries, k, ema_span, min_sep_min)
          # <<>>


---------------------------------------------------------------------------
(* Claims about the composition of the CPCV folds *)

\* The kept month blocks of the run and the folds generated before the cap
KeptBlocks == Blocks(X_index, n_blocks)
GeneratedPairs == AllPairs(KeptBlocks, embargo_minutes)

\* The timestamps of every kept block other than block j that are not within
\* embargo_minutes of the first or the last timestamp of block j
TrainOutsideEmbargo(j) ==
    LET others == UNION {KeptBlocks[b] : b \in (1 .. Len(KeptBlocks)) \ {j}}
        start == SetMin(KeptBlocks[j])
        end == SetMax(KeptBlocks[j])
    IN  {t \in others : /\ Abs(t - start) > embargo_minutes
                        /\ Abs(t - end) > embargo_minutes}

\* C22: for every pair i < j of kept blocks (none dropped by the cap), the
\* output of cpcv_split_by_months holds a fold whose test set is block j and
\* whose train set is every timestamp of the kept blocks other than block j
\* that is not within embargo_minutes of block j's start or end.
C22_FoldComposition ==
    (pc = "clean" /\ Len(GeneratedPairs) <= max_combinations) =>
        \A i \in 1 .. Len(KeptBlocks) : \A j \in (i + 1) .. Len(KeptBlocks) :
            \E f \in 1 .. Len(splits) :
                /\ splits[f].test = KeptBlocks[j]
                /\ splits[f].train = TrainOutsideEmbargo(j)

\* C23: for every index and every non-negative max_combinations the output
\* of cpcv_split_by_months holds at most max_combinations folds, and when
\* more were generated it holds the last max_combinations generated ones.
C23_CombinationCap ==
    pc = "clean" =>
        /\ Len(splits) <= max_combinations
        /\ Len(GeneratedPairs) > max_combinations =>
              splits = SubSeq(GeneratedPairs,
                              Len(GeneratedPairs) - max_combinations + 1,
                              Len(GeneratedPairs))

\* C30: every fold returned by cpcv_split_by_months tests a block j > i >= 1
\* and trains on neither block i nor block j, so the earliest kept block is
\* never a test block; with fewer than three kept blocks every returned fold
\* has an empty train set and the run never gets past the fold cleaning.
C30_MinimumBlockCount ==
    /\ pc = "clean" =>
          /\ \A f \in 1 .. Len(splits) :
                /\ splits[f].test # KeptBlocks[1]
                /\ \E i \in 1 .. Len(KeptBlocks) :
                      \E j \in (i + 1) .. Len(KeptBlocks) :
                          /\ splits[f].test = KeptBlocks[j]
                          /\ splits[f].train \cap
                                (KeptBlocks[i] \cup KeptBlocks[j]) = {}
          /\ Len(GeneratedPairs)
                = (Len(KeptBlocks) * (Len(KeptBlocks) - 1)) \div 2
          /\ Len(KeptBlocks) < 3 =>
                \A f \in 1 .. Len(splits) : splits[f].train = {}
    /\ Len(KeptBlocks) < 3 => pc \in {"split", "clean", "failed"}

\* a run over two kept blocks that hold both label classes, with room below
\* the cap, has failed in the fold cleaning
C30_Witness ==
    /\ pc = "failed"
    /\ Len(KeptBlocks) = 2
    /\ max_combinations >= 1
    /\ \A b \in 1 .. 2 : {y[t] : t \in KeptBlocks[b]} = {0, 1}


---------------------------------------------------------------------------
(* Claims about the flips of the filtered state, checked under SpecRegime *)

\* The filtered state of macro bar b (bar 0 is the first)
StateOfBar(b) == state_h[b + 1]

PooledFlips == find_flips(state_h)
UpFlips == flips_up_idx(state_h)
DownFlips == flips_dn_idx(state_h)

\* C24: find_flips returns exactly the bars b >= 1 whose filtered state
\* differs from that of bar b - 1; the up set is exactly the flips from bear
\* to bull and the down set exactly the flips from bull to bear; both are
\* disjoint subsets of the pooled flips, and a transition into or out of
\* range is in the pooled set only.
C24_FlipDirections ==
    /\ PooledFlips = {b \in 1 .. (Len(state_h) - 1) :
                        StateOfBar(b) # StateOfBar(b - 1)}
    /\ UpFlips = {b \in PooledFlips : /\ StateOfBar(b - 1) = "bear"
                                      /\ StateOfBar(b) = "bull"}
    /\ DownFlips = {b \in PooledFlips : /\ StateOfBar(b - 1) = "bull"
                                        /\ StateOfBar(b) = "bear"}
    /\ UpFlips \cap DownFlips = {}
    /\ UpFlips \subseteq PooledFlips
    /\ DownFlips \subseteq PooledFlips
    /\ \A b \in PooledFlips :
          "range" \in {StateOfBar(b - 1), StateOfBar(b)} =>
              b \notin UpFlips \cup DownFlips

\* the filtered state has left range, flipped up and flipped down
C24_Witness ==
    /\ UpFlips # {}
    /\ DownFlips # {}
    /\ \E b \in PooledFlips : StateOfBar(b - 1) = "range"

\* C28: the first flip of the filtered state is at a bar number of at least
\* hysteresis_bars, and two flips are at least hysteresis_bars bars apart.
C28_FlipSpacing ==
    \A f \in PooledFlips :
        /\ f >= hysteresis_bars
        /\ \A g \in PooledFlips : g > f => g - f >= hysteresis_bars

\* two flips exactly hysteresis_bars apart, with a hysteresis of two bars
\* or more
C28_Witness ==
    /\ hysteresis_bars >= 2
    /\ \E f, g \in PooledFlips : g - f = hysteresis_bars


---------------------------------------------------------------------------
(* Claims about the history and the clipping bounds of the normaliser,     *)
(* checked under SpecNorm                                                  *)

\* The rows of tab in the stratum of row i: its hour of day when the
\* normaliser is stratified, every row otherwise
StratumOf(tab, i) ==
    IF per_hod
    THEN {j \in 1 .. Len(tab) : HourOf(tab[j].ts) = HourOf(tab[i].ts)}
    ELSE 1 .. Len(tab)

\* The history of row i within its stratum reaches back a full window
FullWindowBefore(tab, i) ==
    \E j \in StratumOf(tab, i) :
        tab[j].ts <= tab[i].ts - window_days * MinPerDay

\* C25: transform outputs a row at time t only if the history before t in
\* t's stratum spans the full window_days window; a row with a shorter
\* history is absent from the output.
C25_ShortHistoryDropped ==
    \A r \in 1 .. Len(NormOut) :
        \A i \in 1 .. Len(df) :
            df[i].ts = NormOut[r].ts => FullWindowBefore(df, i)

\* The clipping bounds transform applies to the score of row i of tab
BoundsAt(tab, i) ==
    LET G == StratumOf(tab, i)
        w == window_days * MinPerDay
    IN  WinsorBounds(G, [j \in G |-> ZScore(tab, G, j, w)], winsor)

\* Row i of tab has a score (its trailing window holds a row)
HasScore(tab, i) ==
    ZScore(tab, StratumOf(tab, i), i, window_days * MinPerDay) # <<>>

\* C26: the clipping bounds applied to the score at time t are taken from
\* scores that precede t, so two runs whose inputs agree up to and including
\* t clip the score at t with the same bounds.
C26_WinsorBoundsCausal ==
    \A i \in 1 .. Len(df) :
        (HasScore(df, i) /\ AgreeUpTo(df, df_alt, df[i].ts)) =>
            BoundsAt(df, i) = BoundsAt(df_alt, i)


---------------------------------------------------------------------------
(* Claims about the operating-point sweep, checked under SpecSweep *)

\* C27: for every operating point of the sweep, the reported coverage is the
\* number of y == 1 episodes with at least one alert inside their window
\* divided by the number of episodes, as hazard_eval_operating_point reports
\* it for the same series and parameters, and lies in [0, 1].
C27_CoverageIsEpisodeFraction ==
    sweep_out # <<>> =>
        \A m \in 1 .. Len(sweep_out[1]) :
            LET row == sweep_out[1][m]
            IN  /\ row.coverage.n >= 0
                /\ row.coverage.n <= row.coverage.d
                /\ row.coverage = hazard_eval_coverage(probs_csv, row.thr,
                                      row.k, row.ema, row.sep)


---------------------------------------------------------------------------
(* Claims about the two Benjamini-Hochberg implementations, checked under  *)
(* SpecFdr                                                                 *)

\* C29: for every vector of p-values in [0, 1], the empty one and those with
\* ties included, bh_qvalues returns the q-values bh_fdr has returned, index
\* by index, and bh_fdr returns the same q-values for every q argument.
C29_BhImplementationsAgree ==
    qvals # <<>> =>
        /\ bh_qvalues(pvals) = qvals[1]
        /\ \A q \in PGrid : bh_fdr_with_q(pvals, q) = qvals[1]

\* three p-values with a tie, given out of order, where the running minimum
\* lowers a q-value below its own term
C29_Witness ==
    /\ qvals # <<>>
    /\ Len(pvals) = 3
    /\ pvals[1] = pvals[3]
    /\ FracLess(pvals[2], pvals[1])
    /\ FracLess(bh_qvalues(pvals)[2], StepUpTerm(1))

===========================================================================
